---- MODULE Spec2Model ----
(***************************************************************************)
(* Secure chunked transfer engine of the peer-to-peer file sharing app:    *)
(* the session key store, the ECDH handshake, sendFile's negotiation, the  *)
(* bounded-window chunk pump, the receiver's reassembly and cancellation.  *)
(*                                                                         *)
(* Two peers run the same App component.  Peer "A" is the one whose user   *)
(* sends files, peer "B" the one whose user accepts, rejects and receives. *)
(* JavaScript is single threaded: an action is the code that runs between  *)
(* two suspension points (await, setTimeout, an event being dispatched).   *)
(***************************************************************************)
EXTENDS Integers, Sequences, FiniteSets, Bags, TLC

\* ------------------------------------------------------------ constants
CHUNK_SIZE == 2097152
MAX_CHUNKS_IN_FLIGHT == 30
GCM_TAG == 16

\* ------------------------------------------------------------ bounds
\* Files in the batch handed to handleSendFiles.
NumFiles == 2
\* The largest number of chunks of a file of the batch.
MaxChunks == 2

Peers == {"A", "B"}
Other(p) == IF p = "A" THEN "B" ELSE "A"
FileIds == 1 .. NumFiles

\* JavaScript's undefined / null for an optional field, an absent map entry.
Undef == <<>>
NoPair == <<>>
NoKey == <<>>

\* ------------------------------------------------------------ crypto
\* A key pair is named by the peer that generated it and a serial number;
\* its public and its private half carry the pair's name.
PublicKeyOf(kp) == <<"pub", kp>>
PrivateKeyOf(kp) == <<"priv", kp>>

\* exportPublicKey: spki bytes, base64 encoded.
exportPublicKey(pub) == <<"spki-b64", pub[2]>>
\* importPublicKey: base64 decoded, imported as an ECDH public key.
importPublicKey(str) == <<"pub", str[2]>>

\* deriveSharedSecret: ECDH agrees on the unordered pair of the two key
\* pairs, from which the AES-GCM key is made.
deriveSharedSecret(priv, pub) == <<"aes", {priv[2], pub[2]}>>

\* generateSessionId: 16 random bytes in hex; one per sendFile call.
generateSessionId(f) == <<"sid", f>>
SessionIds == {generateSessionId(f) : f \in FileIds}

\* generateEncryptionKey / exportKey / importKey of the legacy encryption.
generateEncryptionKey(f) == <<"aes", {<<"random", f>>}>>
exportKey(k) == <<"raw-b64", k[2]>>
importKey(str) == <<"aes", str[2]>>

\* getRandomValues(new Uint8Array(12)): the nonce of one encryption.
RandomIv(f) == <<"iv", f>>

\* The file the user picked: its identity and its size in bytes.
PlainFile(f, n) == [file |-> f, size |-> n]

\* AES-GCM: the ciphertext is the plaintext under (key, iv) and is GCM_TAG
\* bytes longer than the plaintext.
AesGcmEncrypt(plain, key, iv) == [pt |-> plain, key |-> key, iv |-> iv]
CipherSize(ct) == ct.pt.size + GCM_TAG

\* A Blob or an ArrayBuffer of ciphertext bytes is a sequence of parts, each
\* the byte range [lo, hi) of one ciphertext.
BlobOf(ct) == <<[ct |-> ct, lo |-> 0, hi |-> CipherSize(ct)]>>
BlobSize(blob) == IF blob = <<>> THEN 0 ELSE blob[1].hi - blob[1].lo
Min(a, b) == IF a < b THEN a ELSE b
\* Blob.slice(start, end) of a one-part blob, then arrayBuffer().
BlobSlice(blob, start, end) ==
    [ct |-> blob[1].ct, lo |-> Min(start, blob[1].hi), hi |-> Min(end, blob[1].hi)]

\* The bytes of a multi-part blob: adjacent ranges of one ciphertext merge.
RECURSIVE Bytes(_)
Bytes(parts) ==
    IF Len(parts) <= 1 THEN parts
    ELSE LET rest == Bytes(Tail(parts))
             h == Head(parts)
         IN IF h.lo = h.hi THEN rest
            ELSE IF rest # <<>> /\ rest[1].ct = h.ct /\ rest[1].lo = h.hi
                 THEN <<[ct |-> h.ct, lo |-> h.lo, hi |-> rest[1].hi]>> \o Tail(rest)
                 ELSE <<h>> \o rest

\* AES-GCM decryption: the tag check passes only for the whole ciphertext
\* under the key and iv it was made with.
DecryptFailed == [file |-> 0, size |-> -1]
AesGcmDecrypt(blob, key, iv) ==
    LET b == Bytes(blob) IN
    IF /\ Len(b) = 1
       /\ b[1].lo = 0 /\ b[1].hi = CipherSize(b[1].ct)
       /\ b[1].ct.key = key /\ b[1].ct.iv = iv
    THEN b[1].ct.pt
    ELSE DecryptFailed

\* Math.floor in the place of Math.ceil.
FloorDiv(a, b) == a \div b

\* Math.ceil(a / b) for a >= 0, b > 0.
CeilDiv(a, b) == (a + b - 1) \div b

\* ------------------------------------------------------------ key store
\* sessionKeys: the module-level map from session id to derived key.
EmptyStore == [id \in SessionIds |-> NoKey]

\* A store that forgets what it is given.
storeSessionKeyDrops(store, sessionId, key) == store

storeSessionKey(store, sessionId, key) == [store EXCEPT ![sessionId] = key]

\* A lookup that finds nothing.
getSessionKeyMissing(store, sessionId) == NoKey

getSessionKey(store, sessionId) == store[sessionId]

\* A removal that removes nothing.
removeSessionKeyKeeps(store, sessionId) == store

removeSessionKey(store, sessionId) ==
    IF store[sessionId] # NoKey THEN [store EXCEPT ![sessionId] = NoKey] ELSE store

\* The ids that hold a key; secureDecryptFile logs them before it throws.
listSessionKeys(store) == {id \in DOMAIN store : store[id] # NoKey}

\* The outcome of an encryption or a decryption: the data, or the error thrown.
Ok(data, iv) == [err |-> "none", data |-> data, iv |-> iv]
Threw(e) == [err |-> e, data |-> <<>>, iv |-> Undef]

secureEncryptFile(store, file, sessionId, iv) ==
    LET key == getSessionKey(store, sessionId) IN
    IF key = NoKey THEN Threw("No session key found for this session ID")
    ELSE Ok(BlobOf(AesGcmEncrypt(file, key, iv)), iv)

encryptFile(file, key, iv) == Ok(BlobOf(AesGcmEncrypt(file, key, iv)), iv)

secureDecryptFile(store, encryptedBlob, sessionId, iv) ==
    LET key == getSessionKey(store, sessionId) IN
    IF key = NoKey
    THEN LET availableKeys == listSessionKeys(store) IN
         Threw("Missing encryption information: No session key found for this session ID")
    ELSE LET decryptedData == AesGcmDecrypt(encryptedBlob, key, iv) IN
         IF decryptedData = DecryptFailed
         THEN Threw("Failed to decrypt file")
         ELSE Ok(decryptedData, iv)

decryptFile(encryptedBlob, keyStr, iv) ==
    LET decryptedData == AesGcmDecrypt(encryptedBlob, importKey(keyStr), iv) IN
    IF decryptedData = DecryptFailed THEN Threw("OperationError") ELSE Ok(decryptedData, iv)

\* FileTransferItem.handleDownload: which decryption a transfer record gets.
handleDownload(store, t) ==
    IF t.blob = Undef \/ t.iv = Undef THEN Threw("not offered")
    ELSE IF t.secure /\ t.sessionId # Undef
         THEN secureDecryptFile(store, t.blob, t.sessionId, t.iv)
         ELSE IF t.key # Undef
              THEN decryptFile(t.blob, t.key, t.iv)
              ELSE Threw("Missing encryption information")

\* ------------------------------------------------------------ state
VARIABLES
    files,               \* the plaintext size of each file of the batch
    conn,                \* per peer: connRef.current ("pending", "open", "null")
    keyPair,             \* per peer: keyPairRef.current
    kpCount,             \* per peer: key pairs generated so far
    openGen,             \* per peer: the generation started on 'open' is running
    sessionKeys,         \* per peer: the session key store
    pendingKeyExchange,  \* on A: session ids with a registered resolve
    chan,                \* per peer: the messages in flight to that peer
    hI,                  \* on A, per session: the key-exchange-reply handler
    hR,                  \* on B, per session: the key-exchange-init handler
    sf,                  \* on A, per file: the sendFile call
    pump,                \* on A, per file: processNextChunks / sendChunk
    transfers,           \* per peer: the transfers list
    pendingTransfers,    \* per peer: the pendingTransfers list
    fileChunks,          \* per peer: fileChunksRef.current
    chunksInFlight,      \* per peer: chunksInFlightRef.current
    cancelledTransfers,  \* per peer: cancelledTransfersRef.current
    sentLog,             \* per peer: every message handed to the channel (a bag)
    codec                \* the last call of the key store or the codec, and per
                         \* peer and session id what the store was last told

vars == <<files, conn, keyPair, kpCount, openGen, sessionKeys, pendingKeyExchange,
          chan, hI, hR, sf, pump, transfers, pendingTransfers, fileChunks,
          chunksInFlight, cancelledTransfers, sentLog, codec>>

kxVars == <<keyPair, kpCount, openGen, sessionKeys, pendingKeyExchange, hI, hR>>
xferVars == <<pump, transfers, pendingTransfers, fileChunks, chunksInFlight,
              cancelledTransfers>>

\* A counter that was deleted, and the NaN that ++ makes of a deleted one.
Absent == -1
NaN == -2

IdleSend == [pc |-> "idle", secure |-> FALSE, key |-> Undef, iv |-> Undef,
             sessionId |-> Undef, enc |-> <<>>, pub |-> Undef]
IdleHandler == [pc |-> "none", peerPub |-> Undef, own |-> Undef]
IdlePump == [pc |-> "none", currentChunk |-> 0]

\* A file id the user did not put in the batch.
NotSelected == -1

\* The plaintext sizes a file of the batch may have: an empty file (one chunk
\* of GCM_TAG bytes), one whose second chunk is a single byte, and one that
\* fills MaxChunks chunks exactly.
PlainSizes == {0, CHUNK_SIZE - GCM_TAG + 1, MaxChunks * CHUNK_SIZE - GCM_TAG}

\* No call of the key store or the codec yet; no id was ever stored.
NoCall ==
    [op |-> "none", peer |-> "A", sessionId |-> Undef, before |-> "never",
     result |-> Threw("none"),
     told |-> [p \in Peers |-> [id \in SessionIds |-> "never"]]]

InitIdle ==
    /\ sessionKeys = [p \in Peers |-> EmptyStore]
    /\ pendingKeyExchange = {}
    /\ chan = [p \in Peers |-> <<>>]
    /\ hI = [s \in SessionIds |-> IdleHandler]
    /\ hR = [s \in SessionIds |-> IdleHandler]
    /\ sf = [f \in FileIds |-> IdleSend]
    /\ pump = [f \in FileIds |-> IdlePump]
    /\ transfers = [p \in Peers |-> <<>>]
    /\ pendingTransfers = [p \in Peers |-> <<>>]
    /\ fileChunks = [p \in Peers |-> [f \in FileIds |-> Undef]]
    /\ chunksInFlight = [p \in Peers |-> [f \in FileIds |-> Absent]]
    /\ cancelledTransfers = [p \in Peers |-> {}]
    /\ sentLog = [p \in Peers |-> EmptyBag]
    /\ codec = NoCall

\* connectToPeer on A and peer.on('connection') on B have run: each peer
\* holds its connection, which is not open yet.
InitConnecting ==
    /\ conn = [p \in Peers |-> "pending"]
    /\ keyPair = [p \in Peers |-> NoPair]
    /\ kpCount = [p \in Peers |-> 0]
    /\ openGen = [p \in Peers |-> FALSE]
    /\ InitIdle

\* Both peers have seen 'open' and the key pair generation it starts is over.
InitOpened ==
    /\ conn = [p \in Peers |-> "open"]
    /\ keyPair = [p \in Peers |-> <<p, 1>>]
    /\ kpCount = [p \in Peers |-> 1]
    /\ openGen = [p \in Peers |-> FALSE]
    /\ InitIdle

\* The batches handleSendFiles is given where one transfer is followed to its
\* end: a single file, which ranges over PlainSizes.
Batches ==
    {fs \in [FileIds -> PlainSizes \cup {NotSelected}] :
        fs[1] # NotSelected /\ \A f \in FileIds : f > 1 => fs[f] = NotSelected}

Init ==
    /\ files \in Batches
    /\ InitOpened

\* ------------------------------------------------------------ channel
\* conn.send(m) for each m of msgs by peer p: the messages join the queue to
\* the other peer (who hears nothing more once its connection is gone) and
\* are counted in p's log.
Post(c, p, msgs) ==
    IF conn[Other(p)] = "null" THEN c ELSE [c EXCEPT ![Other(p)] = @ \o msgs]
Logged(p, msgs) ==
    [sentLog EXCEPT ![p] = @ (+) [m \in {msgs[i] : i \in DOMAIN msgs} |->
                                    Cardinality({i \in DOMAIN msgs : msgs[i] = m})]]

\* ------------------------------------------------------------ connection
\* conn.on('open'): the connection is usable and a key pair generation starts,
\* which nobody awaits.
ConnOpen(p) ==
    /\ conn[p] = "pending"
    /\ conn' = [conn EXCEPT ![p] = "open"]
    /\ openGen' = [openGen EXCEPT ![p] = TRUE]
    /\ UNCHANGED <<files, keyPair, kpCount, sessionKeys, pendingKeyExchange, chan,
                   hI, hR, sf, xferVars, sentLog, codec>>

\* generateAndStoreKeyPair, as started by 'open', gets its key pair.
generateAndStoreKeyPair(p) ==
    /\ keyPair' = [keyPair EXCEPT ![p] = <<p, kpCount[p] + 1>>]
    /\ kpCount' = [kpCount EXCEPT ![p] = @ + 1]

OpenGenDone(p) ==
    /\ openGen[p]
    /\ generateAndStoreKeyPair(p)
    /\ openGen' = [openGen EXCEPT ![p] = FALSE]
    /\ UNCHANGED <<files, conn, sessionKeys, pendingKeyExchange, chan, hI, hR, sf,
                   xferVars, sentLog, codec>>

\* conn.on('close') and conn.on('error'): the same two assignments; nothing
\* is delivered to p afterwards.
ConnLost(p) ==
    /\ conn[p] # "null"
    /\ conn' = [conn EXCEPT ![p] = "null"]
    /\ keyPair' = [keyPair EXCEPT ![p] = NoPair]
    /\ chan' = [chan EXCEPT ![p] = <<>>]
    /\ UNCHANGED <<files, kpCount, openGen, sessionKeys, pendingKeyExchange,
                   hI, hR, sf, xferVars, sentLog, codec>>

\* ------------------------------------------------------------ sendFile
Resolved == {"resolvedTrue", "resolvedFalse", "threw"}

\* sendFile from the point where the handshake is over (or was skipped):
\* secure encryption under the session key when the handshake succeeded,
\* legacy encryption under a fresh literal key when secure is off, the
\* handshake failed or threw, or secure encryption threw.
LegacyEncrypting(f) ==
    LET k == generateEncryptionKey(f)
        r == encryptFile(PlainFile(f, files[f]), k, RandomIv(f))
    IN [pc |-> "encrypting", secure |-> FALSE, key |-> exportKey(k), iv |-> r.iv,
        sessionId |-> Undef, enc |-> r.data, pub |-> Undef]

Encrypting(f, keyExchangeSuccess, store) ==
    LET sid == generateSessionId(f)
        r == secureEncryptFile(store, PlainFile(f, files[f]), sid, RandomIv(f))
    IN IF keyExchangeSuccess /\ r.err = "none"
       THEN [pc |-> "encrypting", secure |-> TRUE, key |-> Undef, iv |-> r.iv,
             sessionId |-> sid, enc |-> r.data, pub |-> Undef]
       ELSE LegacyEncrypting(f)

\* A loop that starts every sendFile at once.
StartSendFileUnordered(f) ==
    /\ sf[f].pc = "idle"
    /\ files[f] # NotSelected
    /\ sf' = [sf EXCEPT ![f] = IF conn["A"] # "open" THEN [IdleSend EXCEPT !.pc = "threw"]
                                ELSE LegacyEncrypting(f)]
    /\ UNCHANGED <<files, conn, kxVars, chan, xferVars, sentLog, codec>>

\* handleSendFiles calls sendFile for the files in order, each after the one
\* before has resolved or thrown.  sendFile reads secureMode (the user's
\* toggle) and, in secure mode, starts initiateKeyExchange.
StartSendFile(f) ==
    /\ sf[f].pc = "idle"
    /\ files[f] # NotSelected
    /\ \A g \in FileIds : g < f => sf[g].pc \in Resolved
    /\ f = 1 => conn["A"] = "open"
    /\ \E secureMode \in BOOLEAN :
         sf' = [sf EXCEPT ![f] =
                  IF conn["A"] # "open" THEN [IdleSend EXCEPT !.pc = "threw"]
                  ELSE IF ~secureMode THEN LegacyEncrypting(f)
                  ELSE IF keyPair["A"] = NoPair
                       THEN [IdleSend EXCEPT !.pc = "kxGen"]
                       ELSE [IdleSend EXCEPT !.pc = "kxExport",
                                             !.pub = PublicKeyOf(keyPair["A"])]]
    /\ UNCHANGED <<files, conn, kxVars, chan, xferVars, sentLog, codec>>

\* initiateKeyExchange: the lazily started generation is done; the public
\* key of whatever keyPairRef holds now goes to exportPublicKey.
KxGenDone(f) ==
    /\ sf[f].pc = "kxGen"
    /\ generateAndStoreKeyPair("A")
    /\ sf' = [sf EXCEPT ![f].pc = "kxExport",
                        ![f].pub = PublicKeyOf(<<"A", kpCount["A"] + 1>>)]
    /\ UNCHANGED <<files, conn, openGen, sessionKeys, pendingKeyExchange, chan, hI, hR,
                   xferVars, sentLog, codec>>

KeyExchangeInit(f) ==
    [type |-> "key-exchange-init", publicKey |-> exportPublicKey(sf[f].pub),
     sessionId |-> generateSessionId(f)]

\* initiateKeyExchange: the export is done; key-exchange-init is sent and the
\* resolve is registered.  A send on a null connection throws, which sendFile
\* catches and answers with legacy encryption.
KxExportDone(f) ==
    /\ sf[f].pc = "kxExport"
    /\ IF conn["A"] = "null"
       THEN /\ sf' = [sf EXCEPT ![f] = LegacyEncrypting(f)]
            /\ UNCHANGED <<chan, sentLog, pendingKeyExchange>>
       ELSE /\ chan' = Post(chan, "A", <<KeyExchangeInit(f)>>)
            /\ sentLog' = Logged("A", <<KeyExchangeInit(f)>>)
            /\ pendingKeyExchange' = pendingKeyExchange \cup {generateSessionId(f)}
            /\ sf' = [sf EXCEPT ![f].pc = "kxWait", ![f].pub = Undef]
    /\ UNCHANGED <<files, conn, keyPair, kpCount, openGen, sessionKeys, hI, hR,
                   xferVars, codec>>

\* ------------------------------------------------------------ handshake
FileOf(sessionId) == sessionId[2]
Head1(p) == chan[p][1]
Receives(p, type) == conn[p] = "open" /\ chan[p] # <<>> /\ Head1(p).type = type

\* A resolve that leaves the handle in the table.
ResolvePendingKept(sessionId, ok, store) ==
    IF sessionId \in pendingKeyExchange
    THEN /\ sf' = [sf EXCEPT ![FileOf(sessionId)] = Encrypting(FileOf(sessionId), ok, store)]
         /\ UNCHANGED pendingKeyExchange
    ELSE UNCHANGED <<pendingKeyExchange, sf>>

\* pendingKeyExchangeRef.current[sessionId].resolve(ok), if there is one: the
\* await in sendFile returns ok and sendFile goes on to encrypt.
ResolvePending(sessionId, ok, store) ==
    IF sessionId \in pendingKeyExchange
    THEN /\ pendingKeyExchange' = pendingKeyExchange \ {sessionId}
         /\ sf' = [sf EXCEPT ![FileOf(sessionId)] = Encrypting(FileOf(sessionId), ok, store)]
    ELSE UNCHANGED <<pendingKeyExchange, sf>>

\* handleIncomingData, key-exchange-reply: up to the await of importPublicKey.
RecvKeyExchangeReply ==
    /\ Receives("A", "key-exchange-reply")
    /\ chan' = [chan EXCEPT !["A"] = Tail(@)]
    /\ hI' = [hI EXCEPT ![Head1("A").sessionId] =
                [pc |-> "import", peerPub |-> Head1("A").publicKey, own |-> Undef]]
    /\ UNCHANGED <<files, conn, keyPair, kpCount, openGen, sessionKeys,
                   pendingKeyExchange, hR, sf, xferVars, sentLog, codec>>

\* The import is done; keyPairRef.current!.privateKey is read (a TypeError
\* when it is null, caught: the pending exchange resolves false).
ReplyImportDone(s) ==
    /\ hI[s].pc = "import"
    /\ IF keyPair["A"] = NoPair
       THEN /\ hI' = [hI EXCEPT ![s] = [IdleHandler EXCEPT !.pc = "deriveFailed"]]
            /\ ResolvePending(s, FALSE, sessionKeys["A"])
       ELSE /\ hI' = [hI EXCEPT ![s] = [pc |-> "derive",
                                        peerPub |-> importPublicKey(hI[s].peerPub),
                                        own |-> PrivateKeyOf(keyPair["A"])]]
            /\ UNCHANGED <<pendingKeyExchange, sf>>
    /\ UNCHANGED <<files, conn, keyPair, kpCount, openGen, sessionKeys, chan, hR,
                   xferVars, sentLog, codec>>

KeyExchangeComplete(s) == [type |-> "key-exchange-complete", sessionId |-> s]

\* The derivation is done: the key is stored, key-exchange-complete is sent
\* (a TypeError on a null connection, caught: resolves false) and the
\* pending exchange resolves true.
ReplyDeriveDone(s) ==
    /\ hI[s].pc = "derive"
    /\ LET sharedKey == deriveSharedSecret(hI[s].own, hI[s].peerPub)
           store == storeSessionKey(sessionKeys["A"], s, sharedKey)
       IN /\ sessionKeys' = [sessionKeys EXCEPT !["A"] = store]
          /\ IF conn["A"] = "null"
             THEN /\ hI' = [hI EXCEPT ![s] = [IdleHandler EXCEPT !.pc = "failed"]]
                  /\ ResolvePending(s, FALSE, store)
                  /\ UNCHANGED <<chan, sentLog>>
             ELSE /\ hI' = [hI EXCEPT ![s] = [IdleHandler EXCEPT !.pc = "done"]]
                  /\ chan' = Post(chan, "A", <<KeyExchangeComplete(s)>>)
                  /\ sentLog' = Logged("A", <<KeyExchangeComplete(s)>>)
                  /\ ResolvePending(s, TRUE, store)
    /\ UNCHANGED <<files, conn, keyPair, kpCount, openGen, hR, xferVars, codec>>

\* handleIncomingData, key-exchange-init: up to the first await, which is the
\* lazy key pair generation when keyPairRef is null, else importPublicKey.
RecvKeyExchangeInit ==
    /\ Receives("B", "key-exchange-init")
    /\ chan' = [chan EXCEPT !["B"] = Tail(@)]
    /\ hR' = [hR EXCEPT ![Head1("B").sessionId] =
                [pc |-> IF keyPair["B"] = NoPair THEN "gen" ELSE "import",
                 peerPub |-> Head1("B").publicKey, own |-> Undef]]
    /\ UNCHANGED <<files, conn, keyPair, kpCount, openGen, sessionKeys,
                   pendingKeyExchange, hI, sf, xferVars, sentLog, codec>>

InitGenDone(s) ==
    /\ hR[s].pc = "gen"
    /\ generateAndStoreKeyPair("B")
    /\ hR' = [hR EXCEPT ![s].pc = "import"]
    /\ UNCHANGED <<files, conn, openGen, sessionKeys, pendingKeyExchange, chan, hI, sf,
                   xferVars, sentLog, codec>>

\* The import is done; keyPairRef.current!.privateKey is read for the
\* derivation (a TypeError when it is null: caught and logged, nothing sent).
InitImportDone(s) ==
    /\ hR[s].pc = "import"
    /\ hR' = [hR EXCEPT ![s] =
                IF keyPair["B"] = NoPair THEN [IdleHandler EXCEPT !.pc = "deriveFailed"]
                ELSE [pc |-> "derive", peerPub |-> importPublicKey(hR[s].peerPub),
                      own |-> PrivateKeyOf(keyPair["B"])]]
    /\ UNCHANGED <<files, conn, keyPair, kpCount, openGen, sessionKeys,
                   pendingKeyExchange, chan, hI, sf, xferVars, sentLog, codec>>

\* The derivation is done: the key is stored and keyPairRef.current!.publicKey
\* is read for the export.
InitDeriveDone(s) ==
    /\ hR[s].pc = "derive"
    /\ sessionKeys' = [sessionKeys EXCEPT !["B"] =
                         storeSessionKey(@, s, deriveSharedSecret(hR[s].own, hR[s].peerPub))]
    /\ hR' = [hR EXCEPT ![s] =
                IF keyPair["B"] = NoPair THEN [IdleHandler EXCEPT !.pc = "failed"]
                ELSE [pc |-> "export", peerPub |-> Undef,
                      own |-> PublicKeyOf(keyPair["B"])]]
    /\ UNCHANGED <<files, conn, keyPair, kpCount, openGen, pendingKeyExchange, chan,
                   hI, sf, xferVars, sentLog, codec>>

KeyExchangeReply(s) ==
    [type |-> "key-exchange-reply", publicKey |-> exportPublicKey(hR[s].own),
     sessionId |-> s]

\* The export is done: key-exchange-reply is sent (a TypeError on a null
\* connection: caught and logged).
InitExportDone(s) ==
    /\ hR[s].pc = "export"
    /\ IF conn["B"] = "null"
       THEN /\ hR' = [hR EXCEPT ![s] = [IdleHandler EXCEPT !.pc = "failed"]]
            /\ UNCHANGED <<chan, sentLog>>
       ELSE /\ hR' = [hR EXCEPT ![s] = [IdleHandler EXCEPT !.pc = "done"]]
            /\ chan' = Post(chan, "B", <<KeyExchangeReply(s)>>)
            /\ sentLog' = Logged("B", <<KeyExchangeReply(s)>>)
    /\ UNCHANGED <<files, conn, keyPair, kpCount, openGen, sessionKeys,
                   pendingKeyExchange, hI, sf, xferVars, codec>>

\* A handler of key-exchange-complete that discards the key pair.
RecvKeyExchangeCompleteDiscards(p) ==
    /\ Receives(p, "key-exchange-complete")
    /\ chan' = [chan EXCEPT ![p] = Tail(@)]
    /\ keyPair' = [keyPair EXCEPT ![p] = NoPair]
    /\ UNCHANGED <<files, conn, kpCount, openGen, sessionKeys, pendingKeyExchange, hI, hR,
                   sf, xferVars, sentLog, codec>>

\* handleIncomingData, key-exchange-complete: a log line.
RecvKeyExchangeComplete(p) ==
    /\ Receives(p, "key-exchange-complete")
    /\ chan' = [chan EXCEPT ![p] = Tail(@)]
    /\ UNCHANGED <<files, conn, kxVars, sf, xferVars, sentLog, codec>>

\* ------------------------------------------------------------ negotiation
FileRequest(f) ==
    [type |-> "file-request", fileId |-> f, fileSize |-> BlobSize(sf[f].enc),
     key |-> sf[f].key, iv |-> sf[f].iv, sessionId |-> sf[f].sessionId,
     secure |-> sf[f].secure]

\* sendFile: the encryption is done; file-request is sent (a TypeError on a
\* null connection, which sendFile rethrows) and handleResponse is registered
\* on the connection's 'data' event.
EncryptDone(f) ==
    /\ sf[f].pc = "encrypting"
    /\ IF conn["A"] = "null"
       THEN /\ sf' = [sf EXCEPT ![f].pc = "threw"]
            /\ UNCHANGED <<chan, sentLog>>
       ELSE /\ sf' = [sf EXCEPT ![f].pc = "requested"]
            /\ chan' = Post(chan, "A", <<FileRequest(f)>>)
            /\ sentLog' = Logged("A", <<FileRequest(f)>>)
    /\ UNCHANGED <<files, conn, kxVars, xferVars, codec>>

\* handleIncomingData, file-request.
RecvFileRequest(p) ==
    /\ Receives(p, "file-request")
    /\ chan' = [chan EXCEPT ![p] = Tail(@)]
    /\ pendingTransfers' = [pendingTransfers EXCEPT ![p] =
          Append(@, [fileId |-> Head1(p).fileId, fileSize |-> Head1(p).fileSize,
                     secure |-> Head1(p).secure])]
    /\ UNCHANGED <<files, conn, kxVars, sf, pump, transfers, fileChunks, chunksInFlight,
                   cancelledTransfers, sentLog, codec>>

IsPending(p, f) == \E i \in DOMAIN pendingTransfers[p] : pendingTransfers[p][i].fileId = f
\* A list that keeps the request that was answered.
WithoutPendingKept(list, f) == list

WithoutPending(list, f) == SelectSeq(list, LAMBDA x : x.fileId # f)

\* acceptFileTransfer, from the Accept button of a pending transfer.
acceptFileTransfer(p, f) ==
    /\ IsPending(p, f)
    /\ conn[p] # "null"
    /\ chan' = Post(chan, p, <<[type |-> "file-accepted", fileId |-> f]>>)
    /\ sentLog' = Logged(p, <<[type |-> "file-accepted", fileId |-> f]>>)
    /\ pendingTransfers' = [pendingTransfers EXCEPT ![p] = WithoutPending(@, f)]
    /\ UNCHANGED <<files, conn, kxVars, sf, pump, transfers, fileChunks, chunksInFlight,
                   cancelledTransfers, codec>>

\* rejectFileTransfer, from the Reject button of a pending transfer.
rejectFileTransfer(p, f) ==
    /\ IsPending(p, f)
    /\ conn[p] # "null"
    /\ chan' = Post(chan, p, <<[type |-> "file-rejected", fileId |-> f]>>)
    /\ sentLog' = Logged(p, <<[type |-> "file-rejected", fileId |-> f]>>)
    /\ pendingTransfers' = [pendingTransfers EXCEPT ![p] = WithoutPending(@, f)]
    /\ UNCHANGED <<files, conn, kxVars, sf, pump, transfers, fileChunks, chunksInFlight,
                   cancelledTransfers, codec>>

\* ------------------------------------------------------------ transfers list
Transfer(f, size, status, key, iv, sessionId, secure) ==
    [id |-> f, size |-> size, progress |-> 0, status |-> status, key |-> key,
     iv |-> iv, sessionId |-> sessionId, secure |-> secure, blob |-> Undef]

\* setTransfers(prev => prev.map(t => t.id === f ? {...t, ...} : t))
SetStatus(list, f, status) ==
    [i \in DOMAIN list |-> IF list[i].id = f THEN [list[i] EXCEPT !.status = status]
                           ELSE list[i]]
\* A progress update that leaves the status alone.
SetProgressOnly(list, f, progress, status) ==
    [i \in DOMAIN list |->
        IF list[i].id = f THEN [list[i] EXCEPT !.progress = progress] ELSE list[i]]

SetProgress(list, f, progress, status) ==
    [i \in DOMAIN list |->
        IF list[i].id = f THEN [list[i] EXCEPT !.status = status, !.progress = progress]
        ELSE list[i]]
SetCompleted(list, f, blob) ==
    [i \in DOMAIN list |->
        IF list[i].id = f
        THEN [list[i] EXCEPT !.status = "completed", !.progress = 100, !.blob = blob]
        ELSE list[i]]

\* transfers.find(t => t.id === f): the first record of the id.
RecordsIn(list, f) == {i \in DOMAIN list : list[i].id = f}
RecordIn(list, f) ==
    list[CHOOSE i \in RecordsIn(list, f) : \A j \in RecordsIn(list, f) : i <= j]
StatusIn(list, f) == IF RecordsIn(list, f) = {} THEN "none" ELSE RecordIn(list, f).status
StatusOf(p, f) == StatusIn(transfers[p], f)
RecordOf(p, f) == RecordIn(transfers[p], f)

\* Math.round(n * 100 / d) for n >= 0, d > 0.
RoundPercent(n, d) == (2 * n * 100 + d) \div (2 * d)

\* ------------------------------------------------------------ pump
TotalChunks(f) == CeilDiv(BlobSize(sf[f].enc), CHUNK_SIZE)

\* The loop condition without its window test.
BelowWindowNoLimit(counter) == counter >= 0

\* counter < MAX_CHUNKS_IN_FLIGHT, which is false of undefined and of NaN.
BelowWindow(counter) == counter >= 0 /\ counter < MAX_CHUNKS_IN_FLIGHT

\* counter++ : undefined and NaN become NaN.
Incremented(counter) == IF counter >= 0 THEN counter + 1 ELSE NaN

\* processNextChunks from the head of its while loop to its next suspension:
\* the await inside sendChunk ("reading"), the setTimeout that follows a loop
\* left with chunks remaining ("timer"), or the end ("done").  The status
\* test on the render's transfers list never finds the transfer: the list
\* the closure holds was captured before the transfer was added.
\* A loop that begins every run at the first chunk.
PumpFromFirst(f, currentChunk, counter, cancelled) ==
    IF currentChunk < TotalChunks(f) /\ BelowWindow(counter) /\ f \notin cancelled
    THEN [pc |-> "reading", currentChunk |-> 0]
    ELSE IF currentChunk < TotalChunks(f)
         THEN [pc |-> "timer", currentChunk |-> currentChunk]
         ELSE [pc |-> "done", currentChunk |-> currentChunk]

PumpFrom(f, currentChunk, counter, cancelled) ==
    IF currentChunk < TotalChunks(f) /\ BelowWindow(counter) /\ f \notin cancelled
    THEN [pc |-> "reading", currentChunk |-> currentChunk]
    ELSE IF currentChunk < TotalChunks(f)
         THEN [pc |-> "timer", currentChunk |-> currentChunk]
         ELSE [pc |-> "done", currentChunk |-> currentChunk]

\* file-start as startFileTransfer sends it.
FileStartLegacy(f) ==
    [type |-> "file-start", fileId |-> f, fileSize |-> BlobSize(sf[f].enc),
     key |-> sf[f].key, iv |-> sf[f].iv, sessionId |-> Undef, secure |-> FALSE]

\* file-start as startSecureFileTransfer sends it.
FileStartSecure(f) ==
    [type |-> "file-start", fileId |-> f, fileSize |-> BlobSize(sf[f].enc),
     key |-> Undef, iv |-> sf[f].iv, sessionId |-> sf[f].sessionId, secure |-> TRUE]

\* startFileTransfer whatever the mode.
FileStartAlwaysLegacy(f) == FileStartLegacy(f)

\* handleResponse: if (secure && sessionId) startSecureFileTransfer, else
\* startFileTransfer.
FileStart(f) ==
    IF sf[f].secure /\ sf[f].sessionId # Undef THEN FileStartSecure(f) ELSE FileStartLegacy(f)

\* Every response taken for an acceptance.
AcceptsAny(data) == TRUE

\* data.type === 'file-accepted'
Accepts(data) == data.type = "file-accepted"

\* A listener that is never taken off the connection.
RegisteredForEver(f) == sf[f].pc \in {"requested"} \cup Resolved

\* handleResponse of sendFile(f) is on the connection: from
\* conn.on('data', handleResponse) to conn.off('data', handleResponse).
Registered(f) == sf[f].pc = "requested"

\* handleResponse of sendFile, registered while the call waits for its answer.
\* file-accepted for its fileId: startFileTransfer or startSecureFileTransfer
\* (the transfer record, file-start, the counter, the first run of
\* processNextChunks), then deregister and resolve(true).  file-rejected for
\* its fileId: the rejected record, then deregister and resolve(false).
handleResponse ==
    /\ conn["A"] = "open" /\ chan["A"] # <<>>
    /\ Head1("A").type \in {"file-accepted", "file-rejected"}
    /\ LET data == Head1("A")
           f == data.fileId
       IN IF ~Registered(f)
          THEN /\ chan' = [chan EXCEPT !["A"] = Tail(@)]
               /\ UNCHANGED <<sf, transfers, sentLog, chunksInFlight, pump>>
          ELSE IF Accepts(data)
          THEN /\ sf' = [sf EXCEPT ![f].pc = "resolvedTrue"]
               /\ transfers' = [transfers EXCEPT !["A"] =
                     Append(@, Transfer(f, BlobSize(sf[f].enc), "pending", sf[f].key,
                                        sf[f].iv, sf[f].sessionId, sf[f].secure))]
               /\ chan' = Post([chan EXCEPT !["A"] = Tail(@)], "A", <<FileStart(f)>>)
               /\ sentLog' = Logged("A", <<FileStart(f)>>)
               /\ chunksInFlight' = [chunksInFlight EXCEPT !["A"][f] = 0]
               /\ pump' = [pump EXCEPT ![f] = PumpFrom(f, 0, 0, cancelledTransfers["A"])]
          ELSE /\ sf' = [sf EXCEPT ![f].pc = "resolvedFalse"]
               /\ transfers' = [transfers EXCEPT !["A"] =
                     Append(@, Transfer(f, files[f], "rejected", Undef, Undef, Undef, FALSE))]
               /\ chan' = [chan EXCEPT !["A"] = Tail(@)]
               /\ UNCHANGED <<sentLog, chunksInFlight, pump>>
    /\ UNCHANGED <<files, conn, kxVars, pendingTransfers, fileChunks,
                   cancelledTransfers, codec>>

\* conn?.send(m): nothing when connRef.current is null.
PostIfConn(c, p, msgs) == IF conn[p] = "null" THEN c ELSE Post(c, p, msgs)
LoggedIfConn(p, msgs) == IF conn[p] = "null" THEN sentLog ELSE Logged(p, msgs)

FileChunk(f, chunkIndex) ==
    [type |-> "file-chunk", fileId |-> f, chunk |-> chunkIndex, total |-> TotalChunks(f),
     data |-> BlobSlice(sf[f].enc, chunkIndex * CHUNK_SIZE,
                        Min(chunkIndex * CHUNK_SIZE + CHUNK_SIZE, BlobSize(sf[f].enc)))]

FileComplete(f) == [type |-> "file-complete", fileId |-> f]

\* sendChunk resumes with the bytes of its slice: the chunk is sent and the
\* counter incremented; processNextChunks then advances currentChunk, sets
\* progress and status 'transferring', and after the last chunk sends
\* file-complete, sets status 'completed' and deletes the counter; else it
\* goes round its loop.
SendChunkDone(f) ==
    /\ pump[f].pc = "reading"
    /\ LET chunkIndex == pump[f].currentChunk
           currentChunk == chunkIndex + 1
           last == currentChunk = TotalChunks(f)
           msgs == <<FileChunk(f, chunkIndex)>> \o (IF last THEN <<FileComplete(f)>> ELSE <<>>)
           counter == IF last THEN Absent ELSE Incremented(chunksInFlight["A"][f])
           progress == RoundPercent(currentChunk, TotalChunks(f))
       IN /\ chan' = PostIfConn(chan, "A", msgs)
          /\ sentLog' = LoggedIfConn("A", msgs)
          /\ chunksInFlight' = [chunksInFlight EXCEPT !["A"][f] = counter]
          /\ transfers' = [transfers EXCEPT !["A"] =
                IF last THEN SetProgress(@, f, 100, "completed")
                ELSE SetProgress(@, f, progress, "transferring")]
          /\ pump' = [pump EXCEPT ![f] =
                IF last THEN [pc |-> "done", currentChunk |-> currentChunk]
                ELSE PumpFrom(f, currentChunk, counter, cancelledTransfers["A"])]
    /\ UNCHANGED <<files, conn, kxVars, sf, pendingTransfers, fileChunks,
                   cancelledTransfers, codec>>

\* A timer that gives the transfer up instead of running the pump again.
PumpTimerExpires(f) ==
    /\ pump[f].pc = "timer"
    /\ pump' = [pump EXCEPT ![f].pc = "done"]
    /\ transfers' = [transfers EXCEPT !["A"] = SetStatus(@, f, "error")]
    /\ UNCHANGED <<files, conn, kxVars, chan, sf, pendingTransfers, fileChunks,
                   chunksInFlight, cancelledTransfers, sentLog, codec>>

\* setTimeout(processNextChunks, 5) fires.
PumpTimer(f) ==
    /\ pump[f].pc = "timer"
    /\ pump' = [pump EXCEPT ![f] = PumpFrom(f, pump[f].currentChunk,
                                            chunksInFlight["A"][f], cancelledTransfers["A"])]
    /\ UNCHANGED <<files, conn, kxVars, chan, sf, transfers, pendingTransfers, fileChunks,
                   chunksInFlight, cancelledTransfers, sentLog, codec>>

\* ------------------------------------------------------------ receiver
\* new Array(n): n holes.
NewArray(n) == [i \in 1 .. n |-> Undef]
\* array[index] = value, the array growing when index is past its end.
ArraySet(array, index, value) ==
    [i \in 1 .. (IF index + 1 > Len(array) THEN index + 1 ELSE Len(array)) |->
        IF i = index + 1 THEN value ELSE IF i <= Len(array) THEN array[i] ELSE Undef]
\* array.filter(chunk => chunk !== undefined)
Defined(array) == SelectSeq(array, LAMBDA x : x # Undef)

\* handleIncomingData, file-start.
RecvFileStart(p) ==
    /\ Receives(p, "file-start")
    /\ chan' = [chan EXCEPT ![p] = Tail(@)]
    /\ LET m == Head1(p) IN
       /\ fileChunks' = [fileChunks EXCEPT ![p][m.fileId] =
                            NewArray(CeilDiv(m.fileSize, CHUNK_SIZE))]
       /\ transfers' = [transfers EXCEPT ![p] =
             Append(@, Transfer(m.fileId, m.fileSize, "pending", m.key, m.iv, Undef, FALSE))]
    /\ UNCHANGED <<files, conn, kxVars, sf, pump, pendingTransfers, chunksInFlight,
                   cancelledTransfers, sentLog, codec>>

\* An acknowledgement that does not say which chunk it is for.
ChunkAckOfFirst(m) == [type |-> "chunk-ack", fileId |-> m.fileId, chunk |-> 0]

ChunkAck(m) == [type |-> "chunk-ack", fileId |-> m.fileId, chunk |-> m.chunk]

\* handleIncomingData, file-chunk: dropped for a cancelled transfer; else
\* stored, progress and status set, acknowledged, and with the chunk
\* total - 1 the blob is assembled, the transfer completed and the buffer
\* deleted.
StoreChunk(p, m) ==
    LET array == IF fileChunks[p][m.fileId] = Undef THEN <<>> ELSE fileChunks[p][m.fileId]
        stored == ArraySet(array, m.chunk, m.data)
        last == m.chunk = m.total - 1
        progress == RoundPercent(m.chunk + 1, m.total)
    IN /\ fileChunks' = [fileChunks EXCEPT ![p][m.fileId] = IF last THEN Undef ELSE stored]
       /\ transfers' = [transfers EXCEPT ![p] =
             IF last THEN SetCompleted(@, m.fileId, Defined(stored))
             ELSE SetProgress(@, m.fileId, progress, "transferring")]
       /\ IF m.fileId \in cancelledTransfers[p]
          THEN chan' = [chan EXCEPT ![p] = Tail(@)] /\ UNCHANGED sentLog
          ELSE /\ chan' = PostIfConn([chan EXCEPT ![p] = Tail(@)], p, <<ChunkAck(m)>>)
               /\ sentLog' = LoggedIfConn(p, <<ChunkAck(m)>>)

DropChunk(p, m) ==
    /\ chan' = [chan EXCEPT ![p] = Tail(@)]
    /\ UNCHANGED <<fileChunks, transfers, sentLog>>

\* The handler without its test of the cancelled set.
HandleFileChunkUnchecked(p, m) == StoreChunk(p, m)

HandleFileChunk(p, m) ==
    IF m.fileId \in cancelledTransfers[p] THEN DropChunk(p, m) ELSE StoreChunk(p, m)

RecvFileChunk(p) ==
    /\ Receives(p, "file-chunk")
    /\ HandleFileChunk(p, Head1(p))
    /\ UNCHANGED <<files, conn, kxVars, sf, pump, pendingTransfers, chunksInFlight,
                   cancelledTransfers, codec>>

\* An acknowledgement that frees no room in the window.
AckedIgnored(counter) == counter

\* if (counter) counter--, which leaves 0, undefined and NaN alone.
Acked(counter) == IF counter > 0 THEN counter - 1 ELSE counter

\* handleIncomingData, chunk-ack.
RecvChunkAck(p) ==
    /\ Receives(p, "chunk-ack")
    /\ chan' = [chan EXCEPT ![p] = Tail(@)]
    /\ chunksInFlight' = [chunksInFlight EXCEPT ![p][Head1(p).fileId] = Acked(@)]
    /\ UNCHANGED <<files, conn, kxVars, sf, pump, transfers, pendingTransfers, fileChunks,
                   cancelledTransfers, sentLog, codec>>

\* A reply to file-cancel that is not an acknowledgement of it.
FileCancelUnacknowledged(f) == FileComplete(f)

FileCancelAck(f) == [type |-> "file-cancel-ack", fileId |-> f]

\* handleIncomingData, file-cancel.
RecvFileCancel(p) ==
    /\ Receives(p, "file-cancel")
    /\ LET f == Head1(p).fileId IN
       /\ cancelledTransfers' = [cancelledTransfers EXCEPT ![p] = @ \cup {f}]
       /\ transfers' = [transfers EXCEPT ![p] = SetStatus(@, f, "cancelled")]
       /\ fileChunks' = [fileChunks EXCEPT ![p][f] = Undef]
       /\ chunksInFlight' = [chunksInFlight EXCEPT ![p][f] = Absent]
       /\ chan' = PostIfConn([chan EXCEPT ![p] = Tail(@)], p, <<FileCancelAck(f)>>)
       /\ sentLog' = LoggedIfConn(p, <<FileCancelAck(f)>>)
    /\ UNCHANGED <<files, conn, kxVars, sf, pump, pendingTransfers, codec>>

\* A handler of file-complete and file-cancel-ack that clears the session
\* keys of the peer.
RecvNoActionClearsKeys(p) ==
    /\ conn[p] = "open" /\ chan[p] # <<>>
    /\ Head1(p).type \in {"file-cancel-ack", "file-complete"}
    /\ chan' = [chan EXCEPT ![p] = Tail(@)]
    /\ sessionKeys' = [sessionKeys EXCEPT ![p] = EmptyStore]
    /\ UNCHANGED <<files, conn, keyPair, kpCount, openGen, pendingKeyExchange, hI, hR,
                   sf, xferVars, sentLog, codec>>

\* handleIncomingData, file-cancel-ack (a log line) and file-complete (no
\* branch handles it).
RecvNoAction(p) ==
    /\ conn[p] = "open" /\ chan[p] # <<>>
    /\ Head1(p).type \in {"file-cancel-ack", "file-complete"}
    /\ chan' = [chan EXCEPT ![p] = Tail(@)]
    /\ UNCHANGED <<files, conn, kxVars, sf, xferVars, sentLog, codec>>

\* cancelFileTransfer, from the Cancel button, which FileTransferItem shows
\* for a transfer that is pending or transferring.
cancelFileTransfer(p, f) ==
    /\ StatusOf(p, f) \in {"pending", "transferring"}
    /\ conn[p] # "null"
    /\ cancelledTransfers' = [cancelledTransfers EXCEPT ![p] = @ \cup {f}]
    /\ chan' = Post(chan, p, <<[type |-> "file-cancel", fileId |-> f]>>)
    /\ sentLog' = Logged(p, <<[type |-> "file-cancel", fileId |-> f]>>)
    /\ transfers' = [transfers EXCEPT ![p] = SetStatus(@, f, "cancelled")]
    /\ chunksInFlight' = [chunksInFlight EXCEPT ![p][f] = Absent]
    /\ UNCHANGED <<files, conn, kxVars, sf, pump, pendingTransfers, fileChunks, codec>>

\* ------------------------------------------------------------ specification
\* The steps of sendFile and of the handshake it starts.
SendFileStep ==
    \/ \E f \in FileIds : StartSendFile(f) \/ KxExportDone(f) \/ EncryptDone(f)
    \/ RecvKeyExchangeInit \/ RecvKeyExchangeReply
    \/ \E s \in SessionIds : ReplyImportDone(s) \/ ReplyDeriveDone(s)
    \/ \E s \in SessionIds : InitImportDone(s) \/ InitDeriveDone(s) \/ InitExportDone(s)
    \/ \E p \in Peers : RecvKeyExchangeComplete(p) \/ RecvFileRequest(p)
    \/ \E p \in Peers, f \in FileIds : acceptFileTransfer(p, f) \/ rejectFileTransfer(p, f)
    \/ handleResponse
    \/ \E p \in Peers : RecvFileStart(p)

\* The chunk pump, the receiver's chunk handling and cancellation.
TransferStep ==
    \/ \E f \in FileIds : SendChunkDone(f) \/ PumpTimer(f)
    \/ \E p \in Peers : RecvFileChunk(p) \/ RecvChunkAck(p) \/ RecvFileCancel(p)
                        \/ RecvNoAction(p)
    \/ \E p \in Peers, f \in FileIds : cancelFileTransfer(p, f)

\* The connection's events and the key pair generations they force.
ConnectionStep ==
    \/ \E p \in Peers : ConnOpen(p) \/ OpenGenDone(p) \/ ConnLost(p)
    \/ \E f \in FileIds : KxGenDone(f)
    \/ \E s \in SessionIds : InitGenDone(s)

\* Transfers over a connection that is open and stays open.
Next == SendFileStep \/ TransferStep

Spec == Init /\ [][Next]_vars

\* The steps no user decides: an awaited promise settles, a message in flight
\* is delivered, a timer fires.
SystemStep ==
    \/ \E f \in FileIds : KxExportDone(f) \/ EncryptDone(f) \/ SendChunkDone(f)
                           \/ PumpTimer(f)
    \/ RecvKeyExchangeInit \/ RecvKeyExchangeReply \/ handleResponse
    \/ \E s \in SessionIds : ReplyImportDone(s) \/ ReplyDeriveDone(s) \/ InitImportDone(s)
                              \/ InitDeriveDone(s) \/ InitExportDone(s)
    \/ \E p \in Peers : RecvKeyExchangeComplete(p) \/ RecvFileRequest(p)
                        \/ RecvFileStart(p) \/ RecvFileChunk(p) \/ RecvChunkAck(p)
                        \/ RecvFileCancel(p) \/ RecvNoAction(p)

\* The event loop runs whatever is ready and the open channel delivers what
\* it was given; the users may stop clicking at any time.
SpecFair == Init /\ [][Next]_vars /\ WF_vars(SystemStep)

\* The connection from before its 'open' to its loss, the handshake and the
\* negotiation up to file-start.  The chunk pump is left out: it reads and
\* writes none of the handshake's or the negotiation's state.
InitKx ==
    /\ files \in [FileIds -> {0}]
    /\ InitConnecting

NextKx == ConnectionStep \/ SendFileStep

SpecKx == InitKx /\ [][NextKx]_vars

\* The steps of NextKx no user decides and no network failure causes.
KxSystemStep ==
    \/ \E p \in Peers : ConnOpen(p) \/ OpenGenDone(p) \/ RecvKeyExchangeComplete(p)
                        \/ RecvFileRequest(p) \/ RecvFileStart(p)
    \/ \E f \in FileIds : KxGenDone(f) \/ KxExportDone(f) \/ EncryptDone(f)
    \/ \E s \in SessionIds : InitGenDone(s) \/ InitImportDone(s) \/ InitDeriveDone(s)
                              \/ InitExportDone(s) \/ ReplyImportDone(s)
                              \/ ReplyDeriveDone(s)
    \/ RecvKeyExchangeInit \/ RecvKeyExchangeReply \/ handleResponse

SpecKxFair == InitKx /\ [][NextKx]_vars /\ WF_vars(KxSystemStep)

\* ------------------------------------------------------------ key store calls
\* The keys, the file and the ciphertexts the calls below are made with.
StoreKeys ==
    {deriveSharedSecret(PrivateKeyOf(<<"A", n>>), PublicKeyOf(<<"B", 1>>)) : n \in 1 .. 2}
StoreFile == PlainFile(1, 0)
StoreBlobs == {BlobOf(AesGcmEncrypt(StoreFile, k, RandomIv(1))) : k \in StoreKeys}

Called(op, p, id, result, told) ==
    [op |-> op, peer |-> p, sessionId |-> id, before |-> codec.told[p][id],
     result |-> result, told |-> [codec.told EXCEPT ![p][id] = told]]

CallStoreSessionKey(p, id, key) ==
    /\ sessionKeys' = [sessionKeys EXCEPT ![p] = storeSessionKey(@, id, key)]
    /\ codec' = Called("storeSessionKey", p, id, Threw("none"), "stored")
    /\ UNCHANGED <<files, conn, keyPair, kpCount, openGen, pendingKeyExchange, chan,
                   hI, hR, sf, xferVars, sentLog>>

CallRemoveSessionKey(p, id) ==
    /\ sessionKeys' = [sessionKeys EXCEPT ![p] = removeSessionKey(@, id)]
    /\ codec' = Called("removeSessionKey", p, id, Threw("none"),
                       IF codec.told[p][id] = "never" THEN "never" ELSE "removed")
    /\ UNCHANGED <<files, conn, keyPair, kpCount, openGen, pendingKeyExchange, chan,
                   hI, hR, sf, xferVars, sentLog>>

CallSecureEncryptFile(p, id) ==
    /\ codec' = Called("secureEncryptFile", p, id,
                       secureEncryptFile(sessionKeys[p], StoreFile, id, RandomIv(1)),
                       codec.told[p][id])
    /\ UNCHANGED <<files, conn, kxVars, chan, sf, xferVars, sentLog>>

CallSecureDecryptFile(p, id, blob) ==
    /\ codec' = Called("secureDecryptFile", p, id,
                       secureDecryptFile(sessionKeys[p], blob, id, RandomIv(1)),
                       codec.told[p][id])
    /\ UNCHANGED <<files, conn, kxVars, chan, sf, xferVars, sentLog>>

InitStore ==
    /\ files = [f \in FileIds |-> NotSelected]
    /\ InitConnecting

NextStore ==
    \E p \in Peers, id \in SessionIds :
        \/ \E key \in StoreKeys : CallStoreSessionKey(p, id, key)
        \/ CallRemoveSessionKey(p, id)
        \/ CallSecureEncryptFile(p, id)
        \/ \E blob \in StoreBlobs : CallSecureDecryptFile(p, id, blob)

SpecStore == InitStore /\ [][NextStore]_vars

\* One file of two chunks more than the window holds, alone in its batch.
WindowFile == (MAX_CHUNKS_IN_FLIGHT + 2) * CHUNK_SIZE - GCM_TAG

InitWindow ==
    /\ files = [f \in FileIds |-> IF f = 1 THEN WindowFile ELSE NotSelected]
    /\ InitOpened

SpecWindow == InitWindow /\ [][Next]_vars

\* The chunk pump and the receiver's chunk handling, without cancellation.
PumpStep ==
    \/ \E f \in FileIds : SendChunkDone(f) \/ PumpTimer(f)
    \/ \E p \in Peers : RecvFileChunk(p) \/ RecvChunkAck(p) \/ RecvNoAction(p)

\* One file, of any of the sizes of PlainSizes or longer than the window,
\* sent over a connection that stays open by users who never cancel.
InitDelivery ==
    /\ files \in {fs \in [FileIds -> PlainSizes \cup {WindowFile, NotSelected}] :
                     fs[1] # NotSelected /\ \A f \in FileIds : f > 1 => fs[f] = NotSelected}
    /\ InitOpened

NextDelivery == SendFileStep \/ PumpStep

SpecDelivery == InitDelivery /\ [][NextDelivery]_vars /\ WF_vars(SystemStep)

\* Transfers over a connection that either peer may lose at any moment.
NextLoss == Next \/ \E p \in Peers : ConnLost(p)

SpecLoss == Init /\ [][NextLoss]_vars

\* The pump with a sender who may cancel at any moment; for the pump a
\* received file-cancel does what the sender's own cancel does (the id joins
\* the cancelled set, the counter is deleted).
NextPump ==
    \/ NextDelivery
    \/ \E f \in FileIds : cancelFileTransfer("A", f)
    \/ \E p \in Peers : RecvFileCancel(p)

SpecPump == InitDelivery /\ [][NextPump]_vars

\* A batch of NumFiles files, the first empty or of two chunks and the others
\* empty (one chunk each), sent over a connection that stays open to a
\* receiver who answers every request; the sender may cancel.
InitBatch ==
    /\ files \in {fs \in [FileIds -> {0, CHUNK_SIZE - GCM_TAG + 1}] :
                     \A f \in FileIds : f > 1 => fs[f] = 0}
    /\ InitOpened

SpecBatch == InitBatch /\ [][NextPump]_vars

\* The receiver's answer to the request of the first file arrives once more,
\* or the opposite answer arrives, after sendFile has been resumed by the
\* first.
RepeatedResponse(f) ==
    /\ f = 1
    /\ sf[f].pc \in {"resolvedTrue", "resolvedFalse"}
    /\ LET answers == {m \in DOMAIN sentLog["B"] :
                          m.type \in {"file-accepted", "file-rejected"} /\ m.fileId = f}
       IN Cardinality(answers) = 1 /\ \A m \in answers : sentLog["B"][m] = 1
    /\ \E type \in {"file-accepted", "file-rejected"} :
          /\ chan' = Post(chan, "B", <<[type |-> type, fileId |-> f]>>)
          /\ sentLog' = Logged("B", <<[type |-> type, fileId |-> f]>>)
    /\ UNCHANGED <<files, conn, kxVars, sf, xferVars, codec>>

NextRedelivery == NextPump \/ \E f \in FileIds : RepeatedResponse(f)

SpecRedelivery == InitBatch /\ [][NextRedelivery]_vars

\* The ciphertext sizes at and next to the multiples of the chunk size, and
\* the smallest one (the tag of an empty file).
CipherSizes ==
    {GCM_TAG} \cup {k * CHUNK_SIZE + d : k \in 1 .. MaxChunks, d \in {-1, 0}}
              \cup {k * CHUNK_SIZE + 1 : k \in 1 .. MaxChunks - 1}

\* One file whose ciphertext has one of these sizes, or which is longer than
\* the window, sent over a connection that stays open by users who never
\* cancel.
InitChunking ==
    /\ files \in {fs \in [FileIds -> {c - GCM_TAG : c \in CipherSizes}
                                       \cup {WindowFile, NotSelected}] :
                     fs[1] # NotSelected /\ \A f \in FileIds : f > 1 => fs[f] = NotSelected}
    /\ InitOpened

SpecChunking == InitChunking /\ [][NextDelivery]_vars

\* The responder's key-exchange-reply of the first session arrives a second
\* time, after the initiator's handler of the first is over.
RepeatedReply(s) ==
    /\ FileOf(s) = 1
    /\ hI[s].pc \in {"done", "failed", "deriveFailed"}
    /\ \E m \in DOMAIN sentLog["B"] :
          /\ m.type = "key-exchange-reply" /\ m.sessionId = s /\ sentLog["B"][m] = 1
          /\ chan' = Post(chan, "B", <<m>>)
          /\ sentLog' = Logged("B", <<m>>)
    /\ UNCHANGED <<files, conn, kxVars, sf, xferVars, codec>>

NextReplay == NextKx \/ \E s \in SessionIds : RepeatedReply(s)

SpecReplay == InitKx /\ [][NextReplay]_vars

\* ------------------------------------------------------------ telemetry
\* Math.round(n / d) for n >= 0, d > 0.
Round(n, d) == (n \div d) + (IF 2 * (n % d) >= d THEN 1 ELSE 0)

Max(a, b) == IF a > b THEN a ELSE b

\* A result that is undefined.
Undefined == Absent

\* An estimate that is given whatever the stored speed is.
EstimateWithoutSample(stored, currentProgress, totalSize) ==
    Max(0, Round(totalSize * (100 - currentProgress) * 10, Max(1, stored)))

\* calculateEstimatedTimeRemaining, with transferSpeedRef.current[fileId] as
\* its first argument: undefined, NaN and 0 become 0 by || 0; else
\* totalSize * (1 - currentProgress / 100) / speed * 1000, rounded, at least 0.
calculateEstimatedTimeRemaining(stored, currentProgress, totalSize) ==
    LET speed == IF stored \in {Absent, NaN} THEN 0 ELSE stored
    IN IF speed <= 0 THEN Undefined
       ELSE Max(0, Round(totalSize * (100 - currentProgress) * 10, speed))

checkConnectionQuality(lastTransferSpeed) ==
    IF lastTransferSpeed > 2000000 THEN "good"
    ELSE IF lastTransferSpeed > 500000 THEN "fair"
    ELSE "poor"

\* What transferSpeedRef.current[fileId] can hold: nothing, NaN, 0 (the
\* receiver's initial value) or a sample in bytes per second.
StoredSpeeds == {Absent, NaN, 0, 1, 7, 500000, 500001, 2000000, 2000001, 16777216}

\* Math.round(currentChunk * 100 / totalChunks) for the totals up to
\* MaxChunks + 1, and the percentages next to the ends.
Progresses ==
    {0, 1, 99, 100} \cup
    UNION {{RoundPercent(c, t) : c \in 0 .. t} : t \in 1 .. MaxChunks + 1}

\* Ciphertext sizes of at most one chunk.
TotalSizes == {GCM_TAG, 1000, CHUNK_SIZE - 1, CHUNK_SIZE}

\* The times, in milliseconds since startTime, at which performance.now() is
\* read; they divide the byte counts below.
ElapsedMs == {1, 2, 4, 8, 64, 128}

\* The bytes of the first chunk.
FirstChunkBytes == {GCM_TAG, CHUNK_SIZE}

CallCalculateEstimatedTimeRemaining(stored, currentProgress, totalSize) ==
    /\ codec' = [op |-> "calculateEstimatedTimeRemaining", stored |-> stored,
                 currentProgress |-> currentProgress, totalSize |-> totalSize,
                 result |-> calculateEstimatedTimeRemaining(stored, currentProgress,
                                                            totalSize)]
    /\ UNCHANGED <<files, conn, kxVars, chan, sf, xferVars, sentLog>>

\* The first iteration of processNextChunks: sendChunk(0) reads the clock and
\* stores the sample bytesTransferred / ((now - lastUpdateTime) / 1000), with
\* lastUpdateTime = startTime; back in the loop currentChunk is 1 and
\* checkConnectionQuality is given
\* currentChunk * CHUNK_SIZE / (performance.now() - startTime).
FirstChunkQuality(bytes, sampledAt, classifiedAt) ==
    /\ sampledAt <= classifiedAt
    /\ LET sample == (bytes * 1000) \div sampledAt
           transferSpeed == (1 * CHUNK_SIZE) \div classifiedAt
       IN codec' = [op |-> "checkConnectionQuality", sample |-> sample,
                    given |-> transferSpeed,
                    result |-> checkConnectionQuality(transferSpeed)]
    /\ UNCHANGED <<files, conn, kxVars, chan, sf, xferVars, sentLog>>

NextTelemetry ==
    \/ \E stored \in StoredSpeeds, currentProgress \in Progresses, totalSize \in TotalSizes :
          CallCalculateEstimatedTimeRemaining(stored, currentProgress, totalSize)
    \/ \E bytes \in FirstChunkBytes, sampledAt \in ElapsedMs, classifiedAt \in ElapsedMs :
          FirstChunkQuality(bytes, sampledAt, classifiedAt)

SpecTelemetry == InitStore /\ [][NextTelemetry]_vars

\* ------------------------------------------------------------ download speed
\* The chunks of each inbound transfer followed here: long enough for chunk
\* indices on both sides of the test data.chunk < 5.
DownloadChunks == 7

\* The milliseconds that pass between two readings of performance.now() by
\* the file-chunk handler.
BetweenChunksMs == {0, 1, 400, 1001}

\* The chunks that may be counted in downloadBytesRef without a sample taken.
MaxUnsampled == 2

\* file-start of every transfer has been handled (transferSpeedRef of each is
\* 0) and no chunk has arrived: downloadBytesRef is 0 and lastChunkTimeRef is
\* 0, more than a second before the first chunk.
\*   next:           per transfer, the index of the chunk to arrive next
\*   sinceLast:      the latest reading of performance.now() - lastChunkTimeRef
\*   downloadBytes:  downloadBytesRef
\*   counted:        per transfer, its share of downloadBytesRef
\*   sampled, fileId: whether the latest handler stored a sample, and for
\*                   which transfer
\*   sampleBytes, sampleMs: the sample, sampleBytes / (sampleMs / 1000) bytes
\*                   per second, kept as its numerator and denominator
\*   used:           per transfer, its share of sampleBytes
DownloadsStarted ==
    /\ codec = NoCall
    /\ codec' = [op |-> "file-start", next |-> [f \in FileIds |-> 0], sinceLast |-> 1001,
                 downloadBytes |-> 0, counted |-> [f \in FileIds |-> 0],
                 sampled |-> FALSE, fileId |-> 1, sampleBytes |-> 0, sampleMs |-> 1,
                 used |-> [f \in FileIds |-> 0]]
    /\ UNCHANGED <<files, conn, kxVars, chan, sf, xferVars, sentLog>>

\* handleIncomingData, file-chunk, its speed calculation: the chunk's bytes
\* are added to downloadBytesRef; for a chunk index below 5, or more than a
\* second after lastChunkTimeRef, updateSpeed stores
\* downloadBytesRef / elapsedSeconds for data.fileId (when elapsedSeconds > 0)
\* and resets downloadBytesRef and lastChunkTimeRef.
DownloadChunk(f, ms) ==
    /\ codec.op \in {"file-start", "file-chunk"}
    /\ codec.next[f] < DownloadChunks
    /\ codec.downloadBytes < MaxUnsampled * CHUNK_SIZE
    /\ LET chunk == codec.next[f]
           elapsedMs == codec.sinceLast + ms
           downloadBytes == codec.downloadBytes + CHUNK_SIZE
           counted == [codec.counted EXCEPT ![f] = @ + CHUNK_SIZE]
           updateSpeed == chunk < 5 \/ elapsedMs > 1000
           stores == updateSpeed /\ elapsedMs > 0
       IN codec' = [op |-> "file-chunk",
                    next |-> [codec.next EXCEPT ![f] = @ + 1],
                    sinceLast |-> IF updateSpeed THEN 0 ELSE elapsedMs,
                    downloadBytes |-> IF updateSpeed THEN 0 ELSE downloadBytes,
                    counted |-> IF updateSpeed THEN [g \in FileIds |-> 0] ELSE counted,
                    sampled |-> stores,
                    fileId |-> f,
                    sampleBytes |-> IF stores THEN downloadBytes ELSE codec.sampleBytes,
                    sampleMs |-> IF stores THEN elapsedMs ELSE codec.sampleMs,
                    used |-> IF stores THEN counted ELSE codec.used]
    /\ UNCHANGED <<files, conn, kxVars, chan, sf, xferVars, sentLog>>

NextDownload ==
    \/ DownloadsStarted
    \/ \E f \in FileIds, ms \in BetweenChunksMs : DownloadChunk(f, ms)

SpecDownload == InitStore /\ [][NextDownload]_vars

\* ------------------------------------------------------------ observations
\* The messages of a type that p has sent for transfer f.
SentCount(p, type, f) ==
    LET ms == {m \in DOMAIN sentLog[p] : m.type = type /\ m.fileId = f}
    IN BagCardinality([m \in ms |-> sentLog[p][m]])

\* The messages of a type for transfer f still on their way to p.
InChannel(p, type, f) ==
    Len(SelectSeq(chan[p], LAMBDA m : m.type = type /\ m.fileId = f))

\* The chunks of f the sender has sent and has not had acknowledged.
Unacked(f) ==
    SentCount("A", "file-chunk", f)
      - (SentCount("B", "chunk-ack", f) - InChannel("A", "chunk-ack", f))

\* ------------------------------------------------------------ C1
\* C1: in every reachable state, for every outbound transfer, the chunks sent
\* and not yet acknowledged are at most MAX_CHUNKS_IN_FLIGHT, and the counter
\* chunksInFlight[fileId], while it holds a number, is that count.
C1_WindowBound ==
    \A f \in FileIds :
        /\ Unacked(f) <= MAX_CHUNKS_IN_FLIGHT
        /\ chunksInFlight["A"][f] >= 0 => chunksInFlight["A"][f] = Unacked(f)

\* The window is full with chunks left to send, in the legacy pump and in
\* the secure one.
C1_WindowFull ==
    \E f \in FileIds :
        /\ chunksInFlight["A"][f] = MAX_CHUNKS_IN_FLIGHT
        /\ pump[f].pc = "timer"
        /\ sf[f].secure
        /\ f \notin cancelledTransfers["A"]

\* ------------------------------------------------------------ C2
\* Transfer f was cancelled on neither peer.
NeverCancelled(f) == \A p \in Peers : f \notin cancelledTransfers[p]

\* C2: when the receiver has completed a transfer that nobody cancelled, the
\* blob in its record has the bytes of the sender's ciphertext, and
\* handleDownload on that record, with the receiver's key store, returns the
\* file the sender picked; in secure mode and in fallback mode.
C2_RoundTrip ==
    \A f \in FileIds :
        StatusOf("B", f) = "completed" /\ NeverCancelled(f) =>
            /\ Bytes(RecordOf("B", f).blob) = Bytes(sf[f].enc)
            /\ handleDownload(sessionKeys["B"], RecordOf("B", f))
                  = Ok(PlainFile(f, files[f]), sf[f].iv)

\* ------------------------------------------------------------ C3
Terminal == {"completed", "cancelled", "rejected", "error"}

\* C3: no step changes the status of a transfer that is completed,
\* cancelled, rejected or error, on either peer.
C3_TerminalStays ==
    [][\A p \in Peers, f \in FileIds :
          StatusIn(transfers[p], f) \in Terminal =>
              StatusIn(transfers'[p], f) = StatusIn(transfers[p], f)]_vars

\* ------------------------------------------------------------ C4
\* The sender called cancelFileTransfer for f after it had sent chunk k,
\* k < total - 1: its file-cancel is on its way with no chunk of f behind it.
SenderCancelledMidway(f) ==
    /\ SentCount("A", "file-chunk", f) \in 1 .. TotalChunks(f) - 1
    /\ \E i \in DOMAIN chan["B"] :
          /\ chan["B"][i] = [type |-> "file-cancel", fileId |-> f]
          /\ \A j \in DOMAIN chan["B"] :
                j > i => ~(chan["B"][j].type = "file-chunk" /\ chan["B"][j].fileId = f)

\* The receiver called cancelFileTransfer for f after a chunk of f, not the
\* last one, had reached it.
ReceiverCancelledMidway(f) ==
    /\ SentCount("B", "file-cancel", f) > 0
    /\ RecordOf("B", f).progress > 0

BothCancelled(f) == \A p \in Peers : StatusOf(p, f) = "cancelled"

\* C4: if either peer calls cancelFileTransfer after chunk k < total - 1 was
\* sent, then from some state on both peers hold the transfer as cancelled
\* for ever.
C4_CancelSettles ==
    \A f \in FileIds :
        [](SenderCancelledMidway(f) \/ ReceiverCancelledMidway(f) => <>[]BothCancelled(f))

\* ------------------------------------------------------------ C5
\* This step is peer p's handler taking a file-chunk of a transfer that is
\* in p's cancelled set.
TakesCancelledChunk(p) ==
    /\ chan[p] # <<>>
    /\ Head(chan[p]).type = "file-chunk"
    /\ Head(chan[p]).fileId \in cancelledTransfers[p]
    /\ chan'[p] = Tail(chan[p])

\* C5: a transfer id never leaves a peer's cancelled set, and a file-chunk
\* that arrives for an id in the set is not stored in the reassembly buffer,
\* changes no transfer record and is not answered with a chunk-ack.
C5_CancelledChunkDropped ==
    [][\A p \in Peers :
          /\ cancelledTransfers[p] \subseteq cancelledTransfers'[p]
          /\ TakesCancelledChunk(p) =>
                /\ fileChunks'[p] = fileChunks[p]
                /\ transfers'[p] = transfers[p]
                /\ sentLog'[p] = sentLog[p]]_vars

\* The receiver, with the transfer in its cancelled set, has taken a chunk
\* it did not acknowledge.
C5_ChunkDropped ==
    \E f \in FileIds :
        /\ f \in cancelledTransfers["B"]
        /\ SentCount("A", "file-chunk", f) - InChannel("B", "file-chunk", f)
              > SentCount("B", "chunk-ack", f)

\* ------------------------------------------------------------ C6
\* C6: when the receiver has answered the file-request of f with
\* file-rejected, the sender has sent no file-start and no file-chunk for f,
\* f is transferring on neither peer, and once the answer has been delivered
\* the sendFile call has resolved false and the sender's record of f is
\* rejected.
C6_RejectedNeverStarts ==
    \A f \in FileIds :
        SentCount("B", "file-rejected", f) > 0 =>
            /\ SentCount("A", "file-start", f) = 0
            /\ SentCount("A", "file-chunk", f) = 0
            /\ \A p \in Peers : StatusOf(p, f) # "transferring"
            /\ InChannel("A", "file-rejected", f) = 0 =>
                  sf[f].pc = "resolvedFalse" /\ StatusOf("A", f) = "rejected"

\* A rejection has been delivered to the sender.
C6_RejectionDelivered ==
    \E f \in FileIds :
        /\ SentCount("B", "file-rejected", f) > 0
        /\ InChannel("A", "file-rejected", f) = 0

\* ------------------------------------------------------------ C7
\* initiateKeyExchange for the transfer f resolved true: sendFile went on in
\* secure mode.
InitiateSucceeded(f) == sf[f].secure

\* C7: after a handshake whose initiateKeyExchange resolved true, the key the
\* initiator holds under the session id is the key the responder holds
\* under it.
C7_KeysAgree ==
    \A f \in FileIds :
        InitiateSucceeded(f) =>
            getSessionKey(sessionKeys["A"], generateSessionId(f))
              = getSessionKey(sessionKeys["B"], generateSessionId(f))

\* ------------------------------------------------------------ C8
\* The handler of key-exchange-reply on the initiator, or the handler of
\* key-exchange-init on the responder, threw at its derivation.
DerivationThrew(s) == hI[s].pc = "deriveFailed" \/ hR[s].pc = "deriveFailed"

\* sendFile is past its await of initiateKeyExchange and not in secure mode.
ContinuedInFallback(f) == sf[f].pc \notin {"idle", "kxGen", "kxExport", "kxWait"} /\ ~sf[f].secure

\* C8: an error at the derivation of a handshake, on either peer, leads to
\* the initiator's pending handle of the session being resolved and sendFile
\* going on in fallback mode.
C8_ErrorResolves ==
    \A s \in SessionIds :
        DerivationThrew(s) ~>
            (s \notin pendingKeyExchange /\ ContinuedInFallback(FileOf(s)))

\* ------------------------------------------------------------ C9
\* The file-request and file-start messages the sender has sent.
Offers(type) == {m \in DOMAIN sentLog["A"] : m.type = type}

\* The handshake of the transfer f resolved true.
HandshakeDone(f) == hI[generateSessionId(f)].pc = "done"

CarriesLiteralKey(m) == m.key # Undef /\ m.sessionId = Undef /\ m.secure = FALSE
CarriesSessionId(m) ==
    m.key = Undef /\ m.sessionId = generateSessionId(m.fileId) /\ m.secure = TRUE

MissingKeyErrors ==
    {"No session key found for this session ID",
     "Missing encryption information: No session key found for this session ID"}

\* The last call was secureEncryptFile or secureDecryptFile for a session id
\* that was never stored, or was removed and not stored since.
CalledWithoutKey ==
    /\ codec.op \in {"secureEncryptFile", "secureDecryptFile"}
    /\ codec.before \in {"never", "removed"}

\* C10: secureEncryptFile and secureDecryptFile, called for a session id
\* that was never stored or that removeSessionKey removed and nobody stored
\* since, throw the missing-key error and return no data.
C10_MissingKeyFails ==
    CalledWithoutKey => codec.result.err \in MissingKeyErrors /\ codec.result.data = <<>>

\* secureDecryptFile was called for a removed session id and threw.
C10_DecryptAfterRemove ==
    /\ codec.op = "secureDecryptFile"
    /\ codec.before = "removed"
    /\ codec.result.err \in MissingKeyErrors

\* ------------------------------------------------------------ C11
\* sendFile has encrypted the file of transfer f.
Encrypted(f) == sf[f].enc # <<>>

\* The key the ciphertext of transfer f was made with.
EncryptionKey(f) == sf[f].enc[1].ct.key

\* C11: two distinct transfers of one connection are encrypted under
\* distinct keys, in secure mode and in fallback mode.
C11_DistinctKeys ==
    \A f, g \in FileIds :
        f # g /\ Encrypted(f) /\ Encrypted(g) => EncryptionKey(f) # EncryptionKey(g)

\* ------------------------------------------------------------ C12
\* The receiver has accepted the request of transfer f.
Accepted(f) == SentCount("B", "file-accepted", f) > 0

BothCompleted(f) == \A p \in Peers : StatusOf(p, f) = "completed"

\* C12: over a connection that stays open, with nobody cancelling, a
\* transfer the receiver accepted reaches completed on both peers, whether
\* it has fewer chunks than the window holds or more.
C12_Completes == \A f \in FileIds : Accepted(f) ~> BothCompleted(f)

\* A transfer of more chunks than the window holds is completed on both peers.
C12_LongFileCompleted ==
    \E f \in FileIds : TotalChunks(f) > MAX_CHUNKS_IN_FLIGHT /\ BothCompleted(f)

\* ------------------------------------------------------------ C13
\* sendChunk resumes from its read in this step and sends chunk (and, after
\* the last chunk, file-complete) of transfer f.
SendsChunk(f) == pump[f].pc = "reading" /\ pump'[f] # pump[f]

\* C13: a transfer that attempts to send a message while the channel is
\* closed or absent is aborted into status error.
C13_ClosedSendErrors ==
    [][\A f \in FileIds :
          SendsChunk(f) /\ conn["A"] = "null" => StatusOf("A", f)' = "error"]_vars

\* ------------------------------------------------------------ C14
\* The receiver has processed file-start of transfer f.
StartProcessed(f) == RecordsIn(transfers["B"], f) # {}

\* C14: once the receiver has processed file-start, its record holds the
\* nonce and the key reference of the message: the literal key in fallback
\* mode, the sessionId and the secure flag in secure mode.
C14_RecordKeepsKeyReference ==
    \A f \in FileIds :
        StartProcessed(f) =>
            /\ RecordOf("B", f).iv = FileStart(f).iv
            /\ RecordOf("B", f).key = FileStart(f).key
            /\ RecordOf("B", f).sessionId = FileStart(f).sessionId
            /\ RecordOf("B", f).secure = FileStart(f).secure

\* ------------------------------------------------------------ C15
\* The sender has handed chunk i of transfer f to the channel.
ChunkSent(f, i) ==
    \E m \in DOMAIN sentLog["A"] : m.type = "file-chunk" /\ m.fileId = f /\ m.chunk = i

AllChunksSent(f) == \A i \in 0 .. TotalChunks(f) - 1 : ChunkSent(f, i)

CompleteSent(f) == SentCount("A", "file-complete", f)

\* file-complete is never sent twice, and never before every chunk was sent.
CompleteOnceAfterChunks ==
    \A f \in FileIds : CompleteSent(f) <= 1 /\ (CompleteSent(f) = 1 => AllChunksSent(f))

\* The step that sends file-complete sets the sender's status to completed.
CompletedWithComplete ==
    \A f \in FileIds : CompleteSent(f)' > CompleteSent(f) => StatusOf("A", f)' = "completed"

\* C15: for an outbound transfer that is not cancelled, file-complete is
\* sent exactly once, after the chunks of all indices 0 .. total - 1, and the
\* sender sets status completed in the step that sends it, whatever
\* acknowledgements are outstanding.
C15_CompleteOnce ==
    /\ []CompleteOnceAfterChunks
    /\ [][CompletedWithComplete]_vars
    /\ \A f \in FileIds : Accepted(f) ~> (CompleteSent(f) = 1 \/ ~NeverCancelled(f))

\* The sender is completed while chunks it sent are not acknowledged and the
\* receiver has not completed.
C15_CompletedBeforeAcks ==
    \E f \in FileIds :
        /\ NeverCancelled(f) /\ CompleteSent(f) = 1 /\ StatusOf("A", f) = "completed"
        /\ Unacked(f) > 0 /\ StatusOf("B", f) # "completed"

\* ------------------------------------------------------------ C16
\* What the handler of file-cancel leaves behind for transfer f at p.
CancelHandled(p, f) ==
    /\ f \in cancelledTransfers'[p]
    /\ StatusOf(p, f)' = "cancelled"
    /\ fileChunks'[p][f] = Undef
    /\ chunksInFlight'[p][f] = Absent
    /\ SentCount(p, "file-cancel-ack", f)' = SentCount(p, "file-cancel-ack", f) + 1
    /\ \A g \in FileIds \ {f} :
          SentCount(p, "file-cancel-ack", g)' = SentCount(p, "file-cancel-ack", g)

\* C16: a received file-cancel puts the id in the recipient's cancelled set,
\* sets the status cancelled, deletes the reassembly buffer and the in-flight
\* counter and is answered with exactly one file-cancel-ack of the same id;
\* a received file-cancel-ack changes no state.
C16_CancelHandled ==
    [][\A p \in Peers :
          IF ~Receives(p, "file-cancel") /\ ~Receives(p, "file-cancel-ack") THEN TRUE
          ELSE IF chan'[p] # Tail(chan[p]) \/ conn'[p] # "open" THEN TRUE
          ELSE IF Head1(p).type = "file-cancel"
               THEN \A f \in FileIds : f = Head1(p).fileId => CancelHandled(p, f)
          ELSE /\ UNCHANGED <<files, conn, kxVars, sf, xferVars, sentLog, codec>>
               /\ chan'[Other(p)] = chan[Other(p)]]_vars

\* A file-cancel was taken and answered, and the answer was taken.
C16_CancelAcknowledged ==
    \E p \in Peers, f \in FileIds :
        /\ SentCount(Other(p), "file-cancel", f) = 1
        /\ SentCount(p, "file-cancel-ack", f) = 1
        /\ InChannel(Other(p), "file-cancel-ack", f) = 0
        /\ f \in cancelledTransfers[p]

\* ------------------------------------------------------------ C17
\* C17: whenever an inbound transfer is completed or cancelled, by a received
\* file-cancel or by the receiver's own cancelFileTransfer, no reassembly
\* buffer of its id remains in fileChunks.
C17_BufferDiscarded ==
    \A f \in FileIds :
        StatusOf("B", f) \in {"completed", "cancelled"} => fileChunks["B"][f] = Undef

\* ------------------------------------------------------------ C18
\* C18: no file-chunk of a transfer is handed to the channel once its id is
\* in the sender's cancelled set; the chunk sendChunk was reading when the
\* transfer was cancelled is not sent.
C18_NoChunkAfterCancel ==
    [][\A f \in FileIds :
          f \in cancelledTransfers["A"] =>
              SentCount("A", "file-chunk", f)' = SentCount("A", "file-chunk", f)]_vars

\* ------------------------------------------------------------ C19
\* How often the sender has handed chunk i of transfer f to the channel.
ChunkSentCount(f, i) ==
    LET ms == {m \in DOMAIN sentLog["A"] :
                  m.type = "file-chunk" /\ m.fileId = f /\ m.chunk = i}
    IN BagCardinality([m \in ms |-> sentLog["A"][m]])

NoIndexTwice == \A f \in FileIds : \A i \in 0 .. TotalChunks(f) - 1 : ChunkSentCount(f, i) <= 1

\* The transfer f of p leaves status transferring in this step.
LeavesTransferring(p, f) ==
    StatusOf(p, f) = "transferring" /\ StatusOf(p, f)' # "transferring"

\* In this step p handles a message of its peer.
PeerResponds(p) == conn[p] = "open" /\ chan[p] # <<>> /\ chan'[p] = Tail(chan[p])

\* In this step p's user calls cancelFileTransfer for f, which sends file-cancel
\* (a received file-cancel is a message of the peer).
Cancels(p, f) == SentCount(p, "file-cancel", f)' > SentCount(p, "file-cancel", f)

ChunkMessages(f) ==
    {m \in DOMAIN sentLog["A"] : m.type = "file-chunk" /\ m.fileId = f}

\* The chunks sent so far of every transfer are those of the indices
\* 0 .. n - 1, each once, with n at most the total.
SentPrefix ==
    \A f \in FileIds :
        LET ms == ChunkMessages(f)
        IN /\ Cardinality(ms) <= TotalChunks(f)
           /\ {m.chunk : m \in ms} = 0 .. Cardinality(ms) - 1
           /\ \A m \in ms : sentLog["A"][m] = 1 /\ m.total = TotalChunks(f)

\* A step that sends a chunk sends the one of the next index, and it is the
\* step of the one sendChunk that was suspended for this transfer.
NextIndexSent ==
    \A f \in FileIds :
        ChunkMessages(f)' # ChunkMessages(f) =>
            /\ pump[f].pc = "reading"
            /\ \E m \in ChunkMessages(f)' :
                  /\ ChunkMessages(f)' = ChunkMessages(f) \cup {m}
                  /\ m.chunk = pump[f].currentChunk
                  /\ m.chunk = Cardinality(ChunkMessages(f))

\* C20: the file-chunk indices of an outbound transfer are handed to the
\* channel in the order 0, 1, 2, ... without gaps, every index lies in
\* 0 .. total - 1, and one pump iteration at a time is sending.
C20_IndicesInOrder == []SentPrefix /\ [][NextIndexSent]_vars

\* Every chunk of a transfer longer than the window has been sent.
C20_LongFileSent ==
    \E f \in FileIds :
        /\ TotalChunks(f) > MAX_CHUNKS_IN_FLIGHT
        /\ SentCount("A", "file-chunk", f) = TotalChunks(f)
        /\ AllChunksSent(f)

\* ------------------------------------------------------------ C21
\* The store of p holds a key under the session id.
HoldsKey(p, sessionId) == getSessionKey(sessionKeys[p], sessionId) # NoKey

\* The file-request messages on their way to the receiver that carry a
\* session id.
SecureRequestsInFlight ==
    {chan["B"][i] : i \in {j \in DOMAIN chan["B"] :
        chan["B"][j].type = "file-request" /\ chan["B"][j].sessionId # Undef}}

\* C21: once initiateKeyExchange has resolved true the initiator's store
\* holds a key for the session id, and when a secure file-request carrying
\* a session id is delivered the receiver's store holds a key for it.
C21_KeyStoredBeforeUse ==
    /\ \A f \in FileIds : HandshakeDone(f) => HoldsKey("A", generateSessionId(f))
    /\ \A m \in SecureRequestsInFlight : HoldsKey("B", m.sessionId)

\* A secure file-request has been delivered to the receiver.
C21_SecureRequestDelivered ==
    \E f \in FileIds :
        /\ IsPending("B", f) /\ sf[f].secure /\ HandshakeDone(f)
        /\ HoldsKey("B", sf[f].sessionId)

\* ------------------------------------------------------------ C22
\* Every entry of the session key stores is there, with its key, after the
\* step.
StoreEntriesKept ==
    \A p \in Peers : \A id \in SessionIds :
        sessionKeys[p][id] # NoKey => sessionKeys'[p][id] = sessionKeys[p][id]

\* C22: no transfer event (completion, rejection, cancellation, chunk or ack
\* handling) removes or replaces an entry of the session key store: what a
\* handshake stored is still there, with the same key, after the transfers.
C22_StoreKeptByTransfers == [][StoreEntriesKept]_vars

\* A secure transfer is over, completed on one peer and cancelled on the
\* other or completed on both, and both stores hold its key.
C22_KeyKeptAfterTransfer ==
    \E f \in FileIds :
        /\ sf[f].secure /\ StatusOf("A", f) = "completed" /\ pump[f].pc = "done"
        /\ StatusOf("B", f) \in {"completed", "cancelled"}
        /\ chan["A"] = <<>> /\ chan["B"] = <<>>
        /\ \A p \in Peers : HoldsKey(p, generateSessionId(f))

\* ------------------------------------------------------------ C23
\* C23: on each peer at most one key pair is generated between the open of
\* the connection and its close or error, so that every handshake of the
\* connection uses the same pair, and after close or error keyPair is null.
C23_OnePairPerConnection ==
    \A p \in Peers :
        /\ kpCount[p] <= 1
        /\ conn[p] = "null" => keyPair[p] = NoPair

\* ------------------------------------------------------------ C24
\* How often the receiver has sent chunk-ack for chunk i of transfer f.
AckCount(f, i) ==
    LET m == [type |-> "chunk-ack", fileId |-> f, chunk |-> i]
    IN IF m \in DOMAIN sentLog["B"] THEN sentLog["B"][m] ELSE 0

\* In this step the receiver's handler takes chunk i of transfer f, which is
\* not cancelled there, and stores it.
StoresChunk(f, i) ==
    /\ Receives("B", "file-chunk")
    /\ Head1("B").fileId = f /\ Head1("B").chunk = i
    /\ f \notin cancelledTransfers["B"]
    /\ chan'["B"] = Tail(chan["B"]) /\ conn'["B"] = "open"

\* C24: for every file-chunk the receiver stores while the transfer is not
\* cancelled and the channel is open it sends exactly one chunk-ack with the
\* same id and index, and it sends no chunk-ack for a chunk it did not store.
C24_AckPerStoredChunk ==
    [][\A f \in FileIds : \A i \in 0 .. TotalChunks(f) - 1 :
          AckCount(f, i)' = AckCount(f, i) + (IF StoresChunk(f, i) THEN 1 ELSE 0)]_vars

\* Both chunks of a two-chunk transfer are stored and acknowledged, and the
\* receiver has sent nothing else of the type.
C24_ChunksAcknowledged ==
    \E f \in FileIds :
        /\ TotalChunks(f) = 2 /\ StatusOf("B", f) = "completed"
        /\ AckCount(f, 0) = 1 /\ AckCount(f, 1) = 1
        /\ SentCount("B", "chunk-ack", f) = 2

\* ------------------------------------------------------------ C25
\* n is the ceiling of s / c: the least number of chunks of size c that hold
\* s bytes.
IsCeiling(n, s, c) == n * c >= s /\ (n - 1) * c < s

\* The slice that chunk message m carries is [i*C, min((i+1)*C, s)) of the
\* ciphertext of its transfer, and is not empty.
SliceOfIndex(m) ==
    /\ m.data.ct = sf[m.fileId].enc[1].ct
    /\ m.data.lo = m.chunk * CHUNK_SIZE
    /\ m.data.hi = Min((m.chunk + 1) * CHUNK_SIZE, BlobSize(sf[m.fileId].enc))
    /\ m.data.lo < m.data.hi

\* C25: for every ciphertext size s the sender's totalChunks is ceil(s / C),
\* the reassembly buffer the receiver allocates on file-start has that
\* length, and the chunk slices [i*C, min((i+1)*C, s)) for i in
\* 0 .. totalChunks - 1 are non-empty and cover the ciphertext exactly once.
C25_Chunking ==
    \A f \in FileIds :
        /\ Encrypted(f) => IsCeiling(TotalChunks(f), BlobSize(sf[f].enc), CHUNK_SIZE)
        /\ \A m \in ChunkMessages(f) : SliceOfIndex(m) /\ m.total = TotalChunks(f)
        /\ (StartProcessed(f) /\ fileChunks["B"][f] # Undef) =>
              Len(fileChunks["B"][f]) = TotalChunks(f)
        /\ StatusOf("B", f) = "completed" =>
              Bytes(RecordOf("B", f).blob) = Bytes(sf[f].enc)

\* A ciphertext of exactly MaxChunks chunks has been sent and reassembled.
C25_ExactMultipleReassembled ==
    \E f \in FileIds :
        /\ Encrypted(f) /\ BlobSize(sf[f].enc) = MaxChunks * CHUNK_SIZE
        /\ Cardinality(ChunkMessages(f)) = MaxChunks
        /\ StatusOf("B", f) = "completed"

\* ------------------------------------------------------------ C26
Abs(x) == IF x < 0 THEN 0 - x ELSE x

\* r, a whole number of milliseconds, is remainingBytes / rate to the nearest
\* millisecond, with remainingBytes = totalSize * (1 - progress / 100) and the
\* rate in bytes per second.
IsRemainingOverRate(r, totalSize, progress, rate) ==
    2 * Abs(r * rate - totalSize * (100 - progress) * 10) <= rate

\* C26: calculateEstimatedTimeRemaining returns undefined exactly when no
\* positive throughput sample is stored for the transfer; otherwise it
\* returns a non-negative value, the remaining bytes divided by the stored
\* sample rate (as milliseconds), which is 0 when progress is 100.
C26_Estimate ==
    codec.op = "calculateEstimatedTimeRemaining" =>
        /\ codec.result = Undefined <=> ~(codec.stored > 0)
        /\ codec.stored > 0 =>
              /\ codec.result >= 0
              /\ IsRemainingOverRate(codec.result, codec.totalSize,
                                     codec.currentProgress, codec.stored)
              /\ codec.currentProgress = 100 => codec.result = 0

\* An estimate was computed from a stored sample for a transfer under way.
C26_EstimateGiven ==
    /\ codec.op = "calculateEstimatedTimeRemaining"
    /\ codec.stored = 500000 /\ codec.currentProgress = 50
    /\ codec.result > 0

\* ------------------------------------------------------------ C27
\* The class the claim gives a throughput value.
QualityClass(r) ==
    IF r > 2000000 THEN "good" ELSE IF 500000 < r /\ r <= 2000000 THEN "fair" ELSE "poor"

\* C27: checkConnectionQuality maps every throughput value to exactly one
\* class, good above 2,000,000, fair above 500,000 up to 2,000,000, poor up
\* to 500,000, and the value the pump gives it is the latest instantaneous
\* throughput sample of the transfer.
C27_QualityOfLatestSample ==
    codec.op = "checkConnectionQuality" =>
        /\ codec.result = QualityClass(codec.given)
        /\ codec.given = codec.sample

\* ------------------------------------------------------------ C28
\* In this step the await of initiateKeyExchange in sendFile returns: the
\* handle of session s is resolved.
Resolves(s) == sf[FileOf(s)].pc = "kxWait" /\ sf'[FileOf(s)].pc # "kxWait"

\* C28: a pending key-exchange handle is resolved at most once and leaves
\* the pending table in the step that resolves it; a second
\* key-exchange-reply of the session resolves nothing.
C28_ResolvedOnce ==
    [][\A s \in SessionIds :
          /\ Resolves(s) => s \in pendingKeyExchange /\ s \notin pendingKeyExchange'
          /\ (s \in pendingKeyExchange /\ s \notin pendingKeyExchange') => Resolves(s)
          /\ (s \notin pendingKeyExchange /\ s \in pendingKeyExchange') =>
                sf[FileOf(s)].pc = "kxExport"
          /\ (s \notin pendingKeyExchange /\ hI'[s] # hI[s]) =>
                sf'[FileOf(s)] = sf[FileOf(s)]]_vars

\* The reply of a session was handled twice to the end: the second handler
\* sent key-exchange-complete again.
C28_SecondReplyHandled ==
    \E s \in SessionIds :
        /\ hI[s].pc = "done" /\ s \notin pendingKeyExchange
        /\ KeyExchangeComplete(s) \in DOMAIN sentLog["A"]
        /\ sentLog["A"][KeyExchangeComplete(s)] = 2

\* ------------------------------------------------------------ C29
\* The responses p has emitted to the request of transfer f.
Responses(p, f) == SentCount(p, "file-accepted", f) + SentCount(p, "file-rejected", f)

C30_CompleteChangesNothing ==
    [][\A p \in Peers :
          IF ~Receives(p, "key-exchange-complete") THEN TRUE
          ELSE IF chan'[p] # Tail(chan[p]) \/ conn'[p] # "open" THEN TRUE
          ELSE /\ UNCHANGED <<files, conn, kxVars, sf, xferVars, sentLog, codec>>
               /\ chan'[Other(p)] = chan[Other(p)]]_vars

\* The responder has taken the key-exchange-complete of a session whose key
\* it holds.
C30_CompleteTaken ==
    \E s \in SessionIds :
        /\ KeyExchangeComplete(s) \in DOMAIN sentLog["A"]
        /\ conn["B"] = "open" /\ HoldsKey("B", s)
        /\ \A i \in DOMAIN chan["B"] : chan["B"][i] # KeyExchangeComplete(s)

\* ------------------------------------------------------------ C31
\* C31: the session key store behaves as a map.  After storeSessionKey(id, k)
\* getSessionKey(id) returns k, also when id held another key before; after
\* removeSessionKey(id) getSessionKey(id) returns absent; removeSessionKey of
\* an absent id changes nothing; and no call changes what getSessionKey
\* returns for another id or in the store of the other peer.
C31_StoreIsMap ==
    [][\A p \in Peers, id \in SessionIds :
          /\ \A key \in StoreKeys :
                CallStoreSessionKey(p, id, key) => getSessionKey(sessionKeys'[p], id) = key
          /\ CallRemoveSessionKey(p, id) =>
                /\ getSessionKey(sessionKeys'[p], id) = NoKey
                /\ getSessionKey(sessionKeys[p], id) = NoKey => sessionKeys' = sessionKeys
          /\ (codec'.peer = p /\ codec'.sessionId = id) =>
                \A q \in Peers, other \in SessionIds :
                    <<q, other>> # <<p, id>> =>
                        getSessionKey(sessionKeys'[q], other) = getSessionKey(sessionKeys[q], other)
      ]_vars

\* A key was stored for an id that held a key already, while another id of
\* the same store holds a different key.
C31_KeyReplaced ==
    \E p \in Peers, id \in SessionIds, other \in SessionIds :
        /\ codec.op = "storeSessionKey" /\ codec.peer = p /\ codec.sessionId = id
        /\ codec.before = "stored"
        /\ other # id
        /\ getSessionKey(sessionKeys[p], id) # NoKey
        /\ getSessionKey(sessionKeys[p], other) # NoKey
        /\ getSessionKey(sessionKeys[p], other) # getSessionKey(sessionKeys[p], id)

\* ------------------------------------------------------------ C32
\* C32: the sender's status of an outbound transfer is completed only if the
\* file-chunk of every index 0 .. total - 1 and the file-complete were handed
\* to the channel, also when the connection closes during the pump.
C32_CompletedOnlyIfSent ==
    \A f \in FileIds :
        StatusOf("A", f) = "completed" => AllChunksSent(f) /\ CompleteSent(f) = 1

\* ------------------------------------------------------------ C33
\* processNextChunks of transfer f is neither suspended nor waiting on its
\* timer.
PumpStopped(f) == pump[f].pc \in {"none", "done"}

\* C33: the pump of an outbound transfer terminates.  Once the transfer is
\* completed or cancelled (by the sender's user or by a received
\* file-cancel), processNextChunks eventually stops re-scheduling itself.
C33_PumpTerminates ==
    \A f \in FileIds :
        (f \in cancelledTransfers["A"] \/ StatusOf("A", f) = "completed") ~> PumpStopped(f)

\* ------------------------------------------------------------ C34
\* The sender has emitted the key-exchange-init or the file-request of file f.
Emitted(f) ==
    \/ SentCount("A", "file-request", f) > 0
    \/ \E m \in DOMAIN sentLog["A"] :
          m.type = "key-exchange-init" /\ FileOf(m.sessionId) = f

\* C34: the files of a batch are requested one at a time in list order.
\* Neither the handshake nor the file-request of a file is emitted before the
\* negotiation of every file before it in the list has resolved to accepted
\* or rejected or has thrown.
C34_OneNegotiationAtATime ==
    \A f \in FileIds, g \in FileIds :
        g < f /\ Emitted(f) => sf[g].pc \in Resolved

\* The pump of an accepted file is running while a later file of the batch
\* waits for the answer to its file-request.
C34_PumpDuringNegotiation ==
    \E f \in FileIds, g \in FileIds :
        /\ g < f
        /\ sf[g].pc = "resolvedTrue" /\ pump[g].pc = "reading"
        /\ sf[f].pc = "requested"

\* ------------------------------------------------------------ C35
\* The sender takes a file-accepted or file-rejected for transfer f in this
\* step.
TakesResponse(f) ==
    /\ conn["A"] = "open" /\ chan["A"] # <<>>
    /\ Head1("A").type \in {"file-accepted", "file-rejected"}
    /\ Head1("A").fileId = f
    /\ chan'["A"] = Tail(chan["A"])

\* What the sender holds and has sent for transfer f.
SenderOf(f) ==
    <<sf[f], pump[f], chunksInFlight["A"][f], RecordsIn(transfers["A"], f),
      SentCount("A", "file-start", f)>>

\* C35: for each transfer the sender emits file-start at most once and starts
\* at most one pump.  A response for f that arrives when the negotiation of f
\* has resolved starts nothing and sends nothing, and a response for f never
\* resolves the negotiation of, or changes anything of, another transfer.
C35_OneStartPerTransfer ==
    /\ [](\A f \in FileIds : SentCount("A", "file-start", f) <= 1)
    /\ [][\A f \in FileIds :
            TakesResponse(f) =>
                /\ sf[f].pc # "requested" => SenderOf(f)' = SenderOf(f) /\ sentLog' = sentLog
                /\ pump'[f] # pump[f] => pump[f].pc = "none"
                /\ \A g \in FileIds \ {f} : SenderOf(g)' = SenderOf(g)]_vars

\* A second file-accepted for a transfer was taken by the sender, whose
\* pump for it had started, while a later file of the batch waited for its
\* own answer.
C35_LateResponseTaken ==
    \E f \in FileIds, g \in FileIds :
        /\ f < g
        /\ SentCount("B", "file-accepted", f) = 2
        /\ InChannel("A", "file-accepted", f) = 0
        /\ pump[f].pc # "none"
        /\ sf[g].pc = "requested"
        /\ InChannel("A", "file-accepted", g) + InChannel("A", "file-rejected", g) = 0

\* ------------------------------------------------------------ C36
\* Peer p takes a chunk-ack of transfer f in this step.
TakesAck(p, f) ==
    /\ Receives(p, "chunk-ack") /\ Head1(p).fileId = f
    /\ chan'[p] = Tail(chan[p]) /\ conn'[p] = "open"

\* C36: the in-flight counter of an outbound transfer, in every reachable
\* state in which it exists, is a non-negative integer; a chunk-ack never
\* takes it below 0, changes nothing when the transfer is completed,
\* cancelled or unknown, and never changes the counter of another transfer.
C36_CounterIsNatural ==
    /\ [](\A f \in FileIds : chunksInFlight["A"][f] # Absent => chunksInFlight["A"][f] >= 0)
    /\ [][\A f \in FileIds :
            TakesAck("A", f) =>
                /\ chunksInFlight["A"][f] >= 0 => chunksInFlight'["A"][f] >= 0
                /\ StatusOf("A", f) \in {"completed", "cancelled", "none"} =>
                        chunksInFlight' = chunksInFlight
                /\ \A g \in FileIds \ {f} :
                        chunksInFlight'["A"][g] = chunksInFlight["A"][g]]_vars

\* ------------------------------------------------------------ C37
\* C37: the throughput sample the receiver stores for an inbound transfer is
\* computed only from bytes of chunks of that transfer: with two inbound
\* transfers in progress, bytes received for one never count toward the
\* sample stored for the other.
C37_SampleOfOwnBytes ==
    (codec.op = "file-chunk" /\ codec.sampled) =>
        \A g \in FileIds \ {codec.fileId} : codec.used[g] = 0
====
